---- MODULE Spec2Model ----
(***************************************************************************)
(* envhist session daemon: the per-connection handler loop                 *)
(* (daemon/src/server.rs), the session registry it shares between          *)
(* handlers, and the timeline / metadata files it writes through           *)
(* core/src/storage.rs and core/src/session.rs.                            *)
(*                                                                         *)
(* Every connection handler is a tokio task on the multi-threaded runtime  *)
(* (daemon/src/main.rs, #[tokio::main]); handlers interleave at every lock *)
(* acquisition and at every file or socket operation.  One action of this  *)
(* module is one such step of one handler.                                 *)
(***************************************************************************)
EXTENDS Integers, Sequences, FiniteSets, TLC

\* ------------------------------------------------------------------ bounds
\* Request lines the daemon reads in a run, over all connections.
MaxLines == 2
\* Highest reading of the wall clock (Utc::now()).
MaxTime == 1

\* --------------------------------------------------------------- universes
Conns == {1, 2}
Pids == {100}
Keys == {"FOO", "AWS_TOKEN"}
Vals == {"bar", "baz"}
Shell == "unknown"

\* Option<String>: None is the empty sequence, Some(v) the one-element one.
None == <<>>
Some(v) == <<v>>
IsSome(o) == Len(o) = 1

\* Env = HashMap<String, String>: a function on the keys it holds.
EmptyEnv == [k \in {} |-> "bar"]
EnvGet(env, k) == IF k \in DOMAIN env THEN Some(env[k]) ELSE None

\* ----------------------------------------------------- tracking policy
\* Regex::is_match over the keys of the model: the keys each pattern matches.
RegexMatch(pattern, key) ==
    CASE pattern = "AWS_.*" -> key \in {"AWS_TOKEN"}
      [] pattern = ".*TOKEN.*" -> key \in {"AWS_TOKEN"}
      [] pattern = ".*" -> TRUE
      [] OTHER -> pattern = key

\* Config::default() filters, cut to the patterns that match a key of the model.
config ==
    [force_track |-> {},
     ignore_system |-> {"PATH"},
     ignore_patterns |-> {".*TOKEN.*", "AWS_.*"}]

\* The policy with the ignore lists left out.
should_track_all(cfg, key) == TRUE

\* A policy that consults the ignore lists before force_track.
should_track_ignore_first(cfg, key) ==
    IF key \in cfg.ignore_system THEN FALSE
    ELSE IF \E p \in cfg.ignore_patterns : RegexMatch(p, key) THEN FALSE
    ELSE TRUE

should_track(cfg, key) ==
    IF \E p \in cfg.force_track : RegexMatch(p, key) THEN TRUE
    ELSE IF key \in cfg.ignore_system THEN FALSE
    ELSE IF \E p \in cfg.ignore_patterns : RegexMatch(p, key) THEN FALSE
    ELSE TRUE

\* ------------------------------------------------------------ wire format
\* A request line is the JSON text of an externally tagged EnvEvent, modelled
\* as the record of its tag and fields.  A line with no tag is whitespace only.
SetLine(p, k, v) == [tag |-> "Set", pid |-> p, key |-> k, value |-> v]
UnsetLine(p, k) == [tag |-> "Unset", pid |-> p, key |-> k]
CaptureLine(p, e) == [tag |-> "Capture", pid |-> p, env |-> e]
GetSessionLine(p) == [tag |-> "GetSession", pid |-> p]
\* A Set object that lacks its value field: serde reports a missing field.
TruncatedLine(p, k) == [tag |-> "Set", pid |-> p, key |-> k]
BlankLine == [ws |-> TRUE]

\* line.trim().is_empty()
IsBlank(l) == "tag" \notin DOMAIN l

\* serde_json::from_str::<EnvEvent>: the fields each variant requires.
EventFields(tag) ==
    CASE tag = "Set" -> {"tag", "pid", "key", "value"}
      [] tag = "Unset" -> {"tag", "pid", "key"}
      [] tag = "Capture" -> {"tag", "pid", "env"}
      [] tag = "GetSession" -> {"tag", "pid"}
      [] OTHER -> {}

\* A parser that accepts every line that is not blank.
ParsesAlways(l) == TRUE

Parses(l) ==
    /\ "tag" \in DOMAIN l
    /\ l.tag \in {"Set", "Unset", "Capture", "GetSession"}
    /\ DOMAIN l = EventFields(l.tag)

IsKeyed(l) == l.tag \in {"Set", "Unset"}

\* EnvResponse
RespOk == [tag |-> "Ok"]
RespSession(s) == [tag |-> "Session", session |-> s]
RespError(m) == [tag |-> "Error", message |-> m]

\* ---------------------------------------------------------------- Session
\* Session::new: Uuid::new_v4() is the fresh id `id`, Utc::now() is `t`.
Session_new(pid, shell, id, t) ==
    [id |-> id, pid |-> pid, shell |-> shell, started_at |-> t, last_updated |-> t]

\* A touch that leaves the timestamp as it was.
update_timestamp_keep(s, t) == s

\* Session::update_timestamp
update_timestamp(s, t) == [s EXCEPT !.last_updated = t]

\* ------------------------------------------------------- timeline storage
\* TimelineEntry; its timestamp is written but read by no operation modelled
\* here and is left out.
Entry(action, key, value, prev) ==
    [action |-> action, key |-> key, value |-> value, prev |-> prev]

\* serde_json of Option<String>: null or a JSON string.
JsonOpt(o) == IF IsSome(o) THEN <<"str", o[1]>> ELSE <<"null">>
FromJsonOpt(j) == IF j[1] = "str" THEN Some(j[2]) ELSE None

\* serde_json::to_string(entry): Action is renamed to lowercase.
to_json(e) ==
    [action |-> IF e.action = "Set" THEN "set" ELSE "unset",
     key |-> e.key, value |-> JsonOpt(e.value), prev |-> JsonOpt(e.prev)]

from_json_ok(j) == j.action \in {"set", "unset"}

from_json(j) ==
    [action |-> IF j.action = "set" THEN "Set" ELSE "Unset",
     key |-> j.key, value |-> FromJsonOpt(j.value), prev |-> FromJsonOpt(j.prev)]

\* A timeline file is the sequence of the chunks written to it: writeln!
\* on an unbuffered File writes the JSON text and the newline as two writes.
TextChunk(j) == [text |-> j]
NewlineChunk == [nl |-> TRUE]
IsNewline(ch) == "nl" \in DOMAIN ch

\* A write to a file opened without append(true): it starts at offset 0.
write_truncating(file, chunk) == <<chunk>>

\* OpenOptions::new().create(true).append(true) followed by one write.
write_append(file, chunk) == Append(file, chunk)

\* The file of `sid` after one write; the file is created when absent.
FileWrite(files, sid, chunk) ==
    [i \in DOMAIN files \cup {sid} |->
        IF i = sid
        THEN write_append(IF sid \in DOMAIN files THEN files[sid] ELSE <<>>, chunk)
        ELSE files[i]]

\* BufRead::lines: the texts between newlines; a last line without a newline
\* is a line too.  A line is the sequence of the JSON texts written into it.
RECURSIVE SplitLines(_, _, _)
SplitLines(chunks, cur, acc) ==
    IF chunks = <<>> THEN (IF cur = <<>> THEN acc ELSE Append(acc, cur))
    ELSE IF IsNewline(Head(chunks))
         THEN SplitLines(Tail(chunks), <<>>, Append(acc, cur))
         ELSE SplitLines(Tail(chunks), Append(cur, Head(chunks).text), acc)

\* The loop of read_timeline: blank lines are skipped, a line that is not one
\* JSON entry fails the whole read.
RECURSIVE ParseEntries(_, _)
ParseEntries(lines, acc) ==
    IF lines = <<>> THEN [ok |-> TRUE, entries |-> acc]
    ELSE LET l == Head(lines) IN
         IF l = <<>> THEN ParseEntries(Tail(lines), acc)
         ELSE IF Len(l) = 1 /\ from_json_ok(l[1])
              THEN ParseEntries(Tail(lines), Append(acc, from_json(l[1])))
              ELSE [ok |-> FALSE, entries |-> <<>>]

\* Storage::read_timeline
read_timeline(files, session) ==
    IF session.id \notin DOMAIN files THEN [ok |-> TRUE, entries |-> <<>>]
    ELSE ParseEntries(SplitLines(files[session.id], <<>>, <<>>), <<>>)

\* The same scan returning the entry's prev, never its value.
RECURSIVE LastMentionPrevOnly(_, _)
LastMentionPrevOnly(entries, key) ==
    IF entries = <<>> THEN None
    ELSE LET e == entries[Len(entries)] IN
         IF e.key = key THEN e.prev
         ELSE LastMentionPrevOnly(SubSeq(entries, 1, Len(entries) - 1), key)

\* entries.iter().rev(): the first entry from the end whose key is `key`
\* decides; value.or(prev).
RECURSIVE LastMention(_, _)
LastMention(entries, key) ==
    IF entries = <<>> THEN None
    ELSE LET e == entries[Len(entries)] IN
         IF e.key = key THEN (IF IsSome(e.value) THEN e.value ELSE e.prev)
         ELSE LastMention(SubSeq(entries, 1, Len(entries) - 1), key)

\* Session::load_metadata succeeds when metadata.json exists.
load_metadata_ok(meta, session) == session.id \in DOMAIN meta

\* EnvHistDaemon::get_previous_value
get_previous_value(session, key, meta, files) ==
    IF load_metadata_ok(meta, session) THEN EnvGet(meta[session.id].current_env, key)
    ELSE LET r == read_timeline(files, session) IN
         IF r.ok THEN LastMention(r.entries, key) ELSE None

\* A save that merges env into the capture already stored.
save_metadata_merge(meta, session, env) ==
    LET old == IF session.id \in DOMAIN meta THEN meta[session.id].current_env
               ELSE EmptyEnv
    IN  [i \in DOMAIN meta \cup {session.id} |->
            IF i = session.id
            THEN [session |-> session,
                  current_env |-> [k \in DOMAIN old \cup DOMAIN env |->
                                      IF k \in DOMAIN env THEN env[k] ELSE old[k]]]
            ELSE meta[i]]

\* Session::save_metadata: metadata.json is replaced by {session, current_env}.
save_metadata(meta, session, env) ==
    [i \in DOMAIN meta \cup {session.id} |->
        IF i = session.id THEN [session |-> session, current_env |-> env] ELSE meta[i]]

\* ------------------------------------------------------------------ state
VARIABLES
    registry,   \* sessions: HashMap<u32, Session>, a function on the pids it holds
    timeline,   \* sessions/<id>/timeline.jsonl: session id -> chunks written
    metadata,   \* sessions/<id>/metadata.json: session id -> {session, current_env}
    now,        \* the wall clock read by Utc::now()
    nextId,     \* the next fresh value of Uuid::new_v4()
    pc,         \* connection -> the step its handler is at
    line,       \* connection -> the request line being handled
    sess,       \* connection -> the Session get_or_create_session gave it
    prev,       \* connection -> the prev computed for the entry being appended
    resp,       \* connection -> the response about to be written
    reqs,       \* connection -> the request lines read so far
    resps,      \* connection -> the response lines written so far
    appended,   \* history: session id -> entries whose append returned Ok
    observed,   \* history: pid -> ids of the sessions get_or_create_session returned
    faulted,    \* history: a storage operation has failed
    snapshots,  \* <name>.json files: <<scope, name>> -> the JSON written
    outcome,    \* the last snapshot call of Storage and what it returned
    socket,     \* the socket file daemon.sock exists
    listening,  \* a daemon process is accepting connections on the socket
    calls,      \* connection -> the client's send_event call that uses it
    args,       \* the function of the core library under call and its arguments
    ret,        \* what that call returned: None before it has returned
    daemons,    \* daemon process -> the step of EnvHistDaemon::run it is at
    owner,      \* the daemon process that bound the socket file now at the path
    lock,       \* connection -> the guard of the sessions RwLock its handler holds
    tracking    \* the Config the daemon loaded: the filters should_track reads

vars == <<registry, timeline, metadata, now, nextId, pc, line, sess, prev, resp,
          reqs, resps, appended, observed, faulted, snapshots, outcome,
          socket, listening, calls, args, ret, daemons, owner, lock, tracking>>

store == <<registry, timeline, metadata>>
locals == <<line, sess, prev, resp>>
history == <<appended, observed, faulted>>
snapvars == <<snapshots, outcome>>
clientvars == <<socket, listening, calls>>
purevars == <<args, ret>>
startvars == <<daemons, owner>>

NoSession == Session_new(0, "", 0, 0)
NoResp == [tag |-> "none"]
NoOutcome == [op |-> "none"]
NoCall == [pc |-> "idle"]
NoArgs == [fn |-> "none"]
\* The daemon processes that may be started, one after or beside another.
Daemons == {1, 2}
NoDaemon == [pc |-> "down", via |-> "none"]
NoOwner == 0
NoGuard == "none"

Envs == {EmptyEnv, [k \in {"FOO"} |-> "bar"]}

\* The request lines a client may send for the pids P.
Lines(P) ==
    {SetLine(p, "FOO", v) : p \in P, v \in Vals}
    \cup {SetLine(p, "AWS_TOKEN", "bar") : p \in P}
    \cup {UnsetLine(p, "FOO") : p \in P}
    \cup {CaptureLine(p, e) : p \in P, e \in Envs}
    \cup {GetSessionLine(p) : p \in P}
    \cup {TruncatedLine(p, "FOO") : p \in P}
    \cup {BlankLine}

RECURSIVE SumLen(_, _)
SumLen(f, S) ==
    IF S = {} THEN 0
    ELSE LET x == CHOOSE y \in S : TRUE IN Len(f[x]) + SumLen(f, S \ {x})

LinesRead == SumLen(reqs, Conns)

Init ==
    /\ registry = <<>>
    /\ timeline = <<>>
    /\ metadata = <<>>
    /\ now = 0
    /\ nextId = 1
    /\ pc = [c \in Conns |-> "read"]
    /\ line = [c \in Conns |-> BlankLine]
    /\ sess = [c \in Conns |-> NoSession]
    /\ prev = [c \in Conns |-> None]
    /\ resp = [c \in Conns |-> NoResp]
    /\ reqs = [c \in Conns |-> <<>>]
    /\ resps = [c \in Conns |-> <<>>]
    /\ appended = <<>>
    /\ observed = [p \in Pids |-> {}]
    /\ faulted = FALSE
    /\ snapshots = <<>>
    /\ outcome = NoOutcome
    /\ socket = FALSE
    /\ listening = FALSE
    /\ calls = [c \in Conns |-> NoCall]
    /\ daemons = [d \in Daemons |-> NoDaemon]
    /\ owner = NoOwner
    /\ lock = [c \in Conns |-> NoGuard]
    /\ tracking = config
    /\ args = NoArgs
    /\ ret = None

\* ------------------------------------------------- handle_client: reading
\* reader.read_line returned a line (server.rs:102).
CanRead(c, max) == pc[c] = "read" /\ LinesRead < max

\* The line is empty after trim: cleared, no response, next read.
ReadBlank(c, L, max) ==
    /\ CanRead(c, max)
    /\ \E l \in L :
        /\ IsBlank(l)
        /\ reqs' = [reqs EXCEPT ![c] = Append(@, l)]
    /\ UNCHANGED <<startvars, lock, tracking, purevars, clientvars, snapvars, store, now, nextId, pc, locals, resps, history>>

\* serde_json::from_str fails: an Error response is written, next read.
ReadMalformed(c, L, max) ==
    /\ CanRead(c, max)
    /\ \E l \in L :
        /\ ~IsBlank(l) /\ ~Parses(l)
        /\ reqs' = [reqs EXCEPT ![c] = Append(@, l)]
        /\ line' = [line EXCEPT ![c] = l]
    /\ resp' = [resp EXCEPT ![c] = RespError("Failed to parse event")]
    /\ pc' = [pc EXCEPT ![c] = "respond"]
    /\ UNCHANGED <<startvars, lock, tracking, purevars, clientvars, snapvars, store, now, nextId, sess, prev, resps, history>>

\* A handler that answers Ok to every event, whatever its variant, when the
\* policy tracks no key at all.
ReadRejectedAnyEvent(c, L, max) ==
    /\ CanRead(c, max)
    /\ \E l \in L :
        /\ ~IsBlank(l) /\ Parses(l)
        /\ IF IsKeyed(l) THEN ~should_track(tracking, l.key)
           ELSE \A k \in Keys : ~should_track(tracking, k)
        /\ reqs' = [reqs EXCEPT ![c] = Append(@, l)]
        /\ line' = [line EXCEPT ![c] = l]
    /\ resp' = [resp EXCEPT ![c] = RespOk]
    /\ pc' = [pc EXCEPT ![c] = "respond"]
    /\ UNCHANGED <<startvars, lock, tracking, purevars, clientvars, snapvars, store, now, nextId, sess, prev, resps, history>>

\* handle_event, Set / Unset with !config.should_track(&key): return Ok.
ReadRejected(c, L, max) ==
    /\ CanRead(c, max)
    /\ \E l \in L :
        /\ ~IsBlank(l) /\ Parses(l) /\ IsKeyed(l) /\ ~should_track(tracking, l.key)
        /\ reqs' = [reqs EXCEPT ![c] = Append(@, l)]
        /\ line' = [line EXCEPT ![c] = l]
    /\ resp' = [resp EXCEPT ![c] = RespOk]
    /\ pc' = [pc EXCEPT ![c] = "respond"]
    /\ UNCHANGED <<startvars, lock, tracking, purevars, clientvars, snapvars, store, now, nextId, sess, prev, resps, history>>

\* handle_event for an event that goes on to get_or_create_session.
ReadEvent(c, L, max) ==
    /\ CanRead(c, max)
    /\ \E l \in L :
        /\ ~IsBlank(l) /\ Parses(l)
        /\ IsKeyed(l) => should_track(tracking, l.key)
        /\ reqs' = [reqs EXCEPT ![c] = Append(@, l)]
        /\ line' = [line EXCEPT ![c] = l]
    /\ pc' = [pc EXCEPT ![c] = "lookup"]
    /\ UNCHANGED <<startvars, lock, tracking, purevars, clientvars, snapvars, store, now, nextId, sess, prev, resp, resps, history>>

\* read_line returned Ok(0): the client closed the connection; Ok(()).
ReadEof(c) ==
    /\ pc[c] = "read"
    /\ pc' = [pc EXCEPT ![c] = "closed"]
    /\ UNCHANGED <<startvars, lock, tracking, purevars, clientvars, snapvars, store, now, nextId, locals, reqs, resps, history>>

\* read_line returned Err: the handler returns the error (`?`) and ends.
ReadFail(c) ==
    /\ pc[c] = "read"
    /\ pc' = [pc EXCEPT ![c] = "closed"]
    /\ UNCHANGED <<startvars, lock, tracking, purevars, clientvars, snapvars, store, now, nextId, locals, reqs, resps, history>>

\* ------------------------------------------------- get_or_create_session
\* sessions_guard.insert(pid, session.clone())
registry_insert(reg, pid, s) ==
    [p \in DOMAIN reg \cup {pid} |-> IF p = pid THEN s ELSE reg[p]]

\* A touch that walks sessions_guard.values_mut() and stamps every session.
registry_touch_all(reg, pid, t) ==
    [p \in DOMAIN reg |-> update_timestamp(reg[p], t)]

\* if let Some(sess) = sessions_guard.get_mut(&pid) { sess.update_timestamp() }
registry_touch(reg, pid, t) ==
    [p \in DOMAIN reg |-> IF p = pid THEN update_timestamp(reg[p], t) ELSE reg[p]]

\* What handle_event does with the session it resolved: Set and Unset go on to
\* get_previous_value, Capture to save_metadata, GetSession returns it.
Resolved(c, s) ==
    /\ sess' = [sess EXCEPT ![c] = s]
    /\ observed' = [observed EXCEPT ![line[c].pid] = @ \cup {s.id}]
    /\ pc' = [pc EXCEPT ![c] =
                CASE line[c].tag \in {"Set", "Unset"} -> "prev"
                  [] line[c].tag = "Capture" -> "save"
                  [] OTHER -> "respond"]
    /\ resp' = [resp EXCEPT ![c] =
                IF line[c].tag = "GetSession" THEN RespSession(s) ELSE @]

\* Under the read lock: the pid has a session, its clone is returned.
LookupHit(c) ==
    /\ pc[c] = "lookup"
    /\ line[c].pid \in DOMAIN registry
    /\ Resolved(c, registry[line[c].pid])
    /\ UNCHANGED <<startvars, lock, tracking, purevars, clientvars, snapvars, store, now, nextId, line, prev, reqs, resps, appended, faulted>>

\* Under the read lock: no session for the pid; the lock is released.
LookupMiss(c) ==
    /\ pc[c] = "lookup"
    /\ line[c].pid \notin DOMAIN registry
    /\ pc' = [pc EXCEPT ![c] = "create"]
    /\ UNCHANGED <<startvars, lock, tracking, purevars, clientvars, snapvars, store, now, nextId, locals, reqs, resps, history>>

\* Session::new(pid, shell), with no lock held.
Create(c) ==
    /\ pc[c] = "create"
    /\ sess' = [sess EXCEPT ![c] = Session_new(line[c].pid, Shell, nextId, now)]
    /\ nextId' = nextId + 1
    /\ pc' = [pc EXCEPT ![c] = "insert"]
    /\ UNCHANGED <<startvars, lock, tracking, purevars, clientvars, snapvars, store, now, line, prev, resp, reqs, resps, history>>

\* Under the write lock: the new session is inserted and returned.
Insert(c) ==
    /\ pc[c] = "insert"
    /\ registry' = registry_insert(registry, line[c].pid, sess[c])
    /\ Resolved(c, sess[c])
    /\ UNCHANGED <<startvars, lock, tracking, purevars, clientvars, snapvars, timeline, metadata, now, nextId, line, prev, reqs, resps,
                   appended, faulted>>

\* --------------------------------------------------- handle_event: Set, Unset
\* get_previous_value: metadata.json, then timeline.jsonl, are read.
Prev(c) ==
    /\ pc[c] = "prev"
    /\ prev' = [prev EXCEPT ![c] =
                  get_previous_value(sess[c], line[c].key, metadata, timeline)]
    /\ pc' = [pc EXCEPT ![c] = "append"]
    /\ UNCHANGED <<startvars, lock, tracking, purevars, clientvars, snapvars, store, now, nextId, line, sess, resp, reqs, resps, history>>

\* An entry whose value and prev have changed places.
EntryOfSwapped(c) ==
    Entry(line[c].tag, line[c].key, prev[c],
          IF line[c].tag = "Set" THEN Some(line[c].value) ELSE None)

\* The TimelineEntry built from the event and the prev computed for it.
EntryOf(c) ==
    Entry(line[c].tag, line[c].key,
          IF line[c].tag = "Set" THEN Some(line[c].value) ELSE None, prev[c])

\* A failing append that has written the entry and refreshes the session.
AppendFailApplied(c) ==
    /\ pc[c] = "append"
    /\ timeline' = FileWrite(FileWrite(timeline, sess[c].id,
                                       TextChunk(to_json(EntryOf(c)))),
                             sess[c].id, NewlineChunk)
    /\ registry' = registry_touch(registry, line[c].pid, now)
    /\ resp' = [resp EXCEPT ![c] = RespError("Failed to append timeline")]
    /\ pc' = [pc EXCEPT ![c] = "respond"]
    /\ faulted' = TRUE
    /\ UNCHANGED <<startvars, lock, tracking, purevars, clientvars, snapvars, metadata, now, nextId, line, sess, prev, reqs, resps,
                   appended, observed>>

\* append_timeline fails before it writes (create_dir_all or open): Error.
AppendFail(c) ==
    /\ pc[c] = "append"
    /\ resp' = [resp EXCEPT ![c] = RespError("Failed to append timeline")]
    /\ pc' = [pc EXCEPT ![c] = "respond"]
    /\ faulted' = TRUE
    /\ UNCHANGED <<startvars, lock, tracking, purevars, clientvars, snapvars, store, now, nextId, line, sess, prev, reqs, resps,
                   appended, observed>>

\* append_timeline: the file is opened for append and the JSON text written.
AppendText(c) ==
    /\ pc[c] = "append"
    /\ timeline' = FileWrite(timeline, sess[c].id, TextChunk(to_json(EntryOf(c))))
    /\ pc' = [pc EXCEPT ![c] = "newline"]
    /\ UNCHANGED <<startvars, lock, tracking, purevars, clientvars, snapvars, registry, metadata, now, nextId, locals, reqs, resps, history>>

\* An append after which a Set returns Ok without touching the session.
AppendNewlineNoTouch(c) ==
    /\ pc[c] = "newline"
    /\ timeline' = FileWrite(timeline, sess[c].id, NewlineChunk)
    /\ appended' = [i \in DOMAIN appended \cup {sess[c].id} |->
                      IF i = sess[c].id
                      THEN Append(IF i \in DOMAIN appended THEN appended[i] ELSE <<>>,
                                  EntryOf(c))
                      ELSE appended[i]]
    /\ pc' = [pc EXCEPT ![c] = "respond"]
    /\ resp' = [resp EXCEPT ![c] = RespOk]
    /\ UNCHANGED <<startvars, lock, tracking, purevars, clientvars, snapvars, registry, metadata, now, nextId, line, sess, prev, reqs, resps,
                   observed, faulted>>

\* append_timeline: the newline is written and Ok(()) returned.  A Set goes
\* on to touch the session; an Unset returns Ok.
AppendNewline(c) ==
    /\ pc[c] = "newline"
    /\ timeline' = FileWrite(timeline, sess[c].id, NewlineChunk)
    /\ appended' = [i \in DOMAIN appended \cup {sess[c].id} |->
                      IF i = sess[c].id
                      THEN Append(IF i \in DOMAIN appended THEN appended[i] ELSE <<>>,
                                  EntryOf(c))
                      ELSE appended[i]]
    /\ pc' = [pc EXCEPT ![c] = IF line[c].tag = "Set" THEN "touch" ELSE "respond"]
    /\ resp' = [resp EXCEPT ![c] = IF line[c].tag = "Set" THEN @ ELSE RespOk]
    /\ UNCHANGED <<startvars, lock, tracking, purevars, clientvars, snapvars, registry, metadata, now, nextId, line, sess, prev, reqs, resps,
                   observed, faulted>>

\* Set, under the write lock: the registry's session for the pid is touched.
Touch(c) ==
    /\ pc[c] = "touch"
    /\ registry' = registry_touch(registry, line[c].pid, now)
    /\ resp' = [resp EXCEPT ![c] = RespOk]
    /\ pc' = [pc EXCEPT ![c] = "respond"]
    /\ UNCHANGED <<startvars, lock, tracking, purevars, clientvars, snapvars, timeline, metadata, now, nextId, line, sess, prev, reqs, resps,
                   history>>

\* ---------------------------------------------------- handle_event: Capture
Save(c) ==
    /\ pc[c] = "save"
    /\ metadata' = save_metadata(metadata, sess[c], line[c].env)
    /\ resp' = [resp EXCEPT ![c] = RespOk]
    /\ pc' = [pc EXCEPT ![c] = "respond"]
    /\ UNCHANGED <<startvars, lock, tracking, purevars, clientvars, snapvars, registry, timeline, now, nextId, line, sess, prev, reqs, resps,
                   history>>

\* save_metadata fails: Error.
SaveFail(c) ==
    /\ pc[c] = "save"
    /\ resp' = [resp EXCEPT ![c] = RespError("Failed to save metadata")]
    /\ pc' = [pc EXCEPT ![c] = "respond"]
    /\ faulted' = TRUE
    /\ UNCHANGED <<startvars, lock, tracking, purevars, clientvars, snapvars, store, now, nextId, line, sess, prev, reqs, resps,
                   appended, observed>>

\* ------------------------------------------------ handle_client: responding
\* A write that puts the response before the ones already written.
RespondFirst(c) ==
    /\ pc[c] = "respond"
    /\ resps' = [resps EXCEPT ![c] = <<resp[c]>> \o @]
    /\ pc' = [pc EXCEPT ![c] = "read"]
    /\ line' = [line EXCEPT ![c] = BlankLine]
    /\ sess' = [sess EXCEPT ![c] = NoSession]
    /\ prev' = [prev EXCEPT ![c] = None]
    /\ resp' = [resp EXCEPT ![c] = NoResp]
    /\ UNCHANGED <<startvars, lock, tracking, purevars, clientvars, snapvars, store, now, nextId, reqs, history>>

\* The response line is written; line.clear(); the loop reads again.
Respond(c) ==
    /\ pc[c] = "respond"
    /\ resps' = [resps EXCEPT ![c] = Append(@, resp[c])]
    /\ pc' = [pc EXCEPT ![c] = "read"]
    /\ line' = [line EXCEPT ![c] = BlankLine]
    /\ sess' = [sess EXCEPT ![c] = NoSession]
    /\ prev' = [prev EXCEPT ![c] = None]
    /\ resp' = [resp EXCEPT ![c] = NoResp]
    /\ UNCHANGED <<startvars, lock, tracking, purevars, clientvars, snapvars, store, now, nextId, reqs, history>>

\* writer.write_all returned Err (the client is gone): the handler returns it
\* and ends.
RespondFail(c) ==
    /\ pc[c] = "respond"
    /\ pc' = [pc EXCEPT ![c] = "closed"]
    /\ UNCHANGED <<startvars, lock, tracking, purevars, clientvars, snapvars, store, now, nextId, locals, reqs, resps, history>>

\* Time passes.
Tick ==
    /\ now < MaxTime
    /\ now' = now + 1
    /\ UNCHANGED <<startvars, lock, tracking, purevars, clientvars, snapvars, store, nextId, pc, locals, reqs, resps, history>>

\* ------------------------------------------------------- specifications
Handler(c, L, max) ==
    \/ ReadBlank(c, L, max) \/ ReadMalformed(c, L, max) \/ ReadRejected(c, L, max) \/ ReadEvent(c, L, max)
    \/ ReadEof(c) \/ ReadFail(c)
    \/ LookupHit(c) \/ LookupMiss(c) \/ Create(c) \/ Insert(c)
    \/ Prev(c) \/ AppendFail(c) \/ AppendText(c) \/ AppendNewline(c) \/ Touch(c)
    \/ Save(c) \/ SaveFail(c)
    \/ Respond(c) \/ RespondFail(c)

\* The request lines of the concurrent specification.
RaceLines(P) ==
    {SetLine(p, "FOO", "bar") : p \in P}
    \cup {SetLine(p, "AWS_TOKEN", "bar") : p \in P}
    \cup {UnsetLine(p, "AWS_TOKEN") : p \in P}
    \cup {CaptureLine(p, [k \in {"FOO"} |-> "baz"]) : p \in P}
    \cup {GetSessionLine(p) : p \in P}
    \cup {TruncatedLine(p, "FOO") : p \in P}
    \cup {BlankLine}

\* The connections' handlers run concurrently; MaxLines lines are read in all.
Next == (\E c \in Conns : Handler(c, RaceLines(Pids), MaxLines)) \/ Tick

Spec == Init /\ [][Next]_vars

\* One connection: its events are handled one after another, one line more.
NextSeq == Handler(1, Lines(Pids), MaxLines + 1) \/ Tick

SpecSeq == Init /\ [][NextSeq]_vars

\* Two connections that each send Set events of one key, with every read and
\* write succeeding: handle_client and handle_event along their Ok path.  Each
\* step is a step of Next, so each behaviour is a behaviour of Spec.
SetLines(P) == {SetLine(p, "FOO", "bar") : p \in P}

HandlerOk(c, L, max) ==
    \/ ReadEvent(c, L, max) \/ ReadEof(c)
    \/ LookupHit(c) \/ LookupMiss(c) \/ Create(c) \/ Insert(c)
    \/ Prev(c) \/ AppendText(c) \/ AppendNewline(c) \/ Touch(c)
    \/ Respond(c)

NextRace == \E c \in Conns : HandlerOk(c, SetLines(Pids), MaxLines)

SpecRace == Init /\ [][NextRace]_vars

\* Two shells, each on its own connection: connection 1 sends the events of
\* one pid, connection 2 those of another.
OtherPids == {200}
AllPids == Pids \cup OtherPids

InitTwo ==
    /\ registry = <<>>
    /\ timeline = <<>>
    /\ metadata = <<>>
    /\ now = 0
    /\ nextId = 1
    /\ pc = [c \in Conns |-> "read"]
    /\ line = [c \in Conns |-> BlankLine]
    /\ sess = [c \in Conns |-> NoSession]
    /\ prev = [c \in Conns |-> None]
    /\ resp = [c \in Conns |-> NoResp]
    /\ reqs = [c \in Conns |-> <<>>]
    /\ resps = [c \in Conns |-> <<>>]
    /\ appended = <<>>
    /\ observed = [p \in AllPids |-> {}]
    /\ faulted = FALSE
    /\ snapshots = <<>>
    /\ outcome = NoOutcome
    /\ socket = FALSE
    /\ listening = FALSE
    /\ calls = [c \in Conns |-> NoCall]
    /\ daemons = [d \in Daemons |-> NoDaemon]
    /\ owner = NoOwner
    /\ lock = [c \in Conns |-> NoGuard]
    /\ tracking = config
    /\ args = NoArgs
    /\ ret = None

NextTwo ==
    \/ Handler(1, RaceLines(Pids), MaxLines)
    \/ Handler(2, RaceLines(OtherPids), MaxLines)
    \/ Tick

SpecTwo == InitTwo /\ [][NextTwo]_vars

\* ------------------------------------------------------------ snapshots
\* At most MaxSnaps snapshot files exist at a time.
MaxSnaps == 2

SnapNames == {"nightly", "other"}
\* The ids of the session directories under sessions/.
SnapSessions == {1, 2}
\* session: Option<&Session>, None for the global scope; of the Session only
\* its id is used (snapshots_dir).
Scopes == {None} \cup {Some(s) : s \in SnapSessions}

\* Result<T>
Ok(v) == [ok |-> TRUE, value |-> v]
Err(m) == [ok |-> FALSE, error |-> m]

\* Snapshot; tags is Vec::new() in every snapshot the CLI builds.
Snapshot(name, created_at, description, environment, session_id) ==
    [name |-> name, created_at |-> created_at, description |-> description,
     environment |-> environment, tags |-> <<>>, session_id |-> session_id]

\* serde_json::to_string_pretty(snapshot) and serde_json::from_str: the two
\* Option fields are null or a JSON string.
snapshot_to_json(s) ==
    [name |-> s.name, created_at |-> s.created_at,
     description |-> JsonOpt(s.description), environment |-> s.environment,
     tags |-> s.tags, session_id |-> JsonOpt(s.session_id)]

\* A parse that reads neither the environment nor the session id.
snapshot_from_json_lossy(j) ==
    [name |-> j.name, created_at |-> j.created_at,
     description |-> FromJsonOpt(j.description), environment |-> EmptyEnv,
     tags |-> j.tags, session_id |-> None]

snapshot_from_json(j) ==
    [name |-> j.name, created_at |-> j.created_at,
     description |-> FromJsonOpt(j.description), environment |-> j.environment,
     tags |-> j.tags, session_id |-> FromJsonOpt(j.session_id)]

\* sess.snapshots_dir() or Config::global_snapshots_dir(), joined with
\* "<name>.json".
snapshot_path(name, session) == <<session, name>>

\* A save that writes every snapshot into the global directory.
save_snapshot_flat(files, snapshot, session) ==
    LET path == snapshot_path(snapshot.name, None) IN
    [p \in DOMAIN files \cup {path} |->
        IF p = path THEN snapshot_to_json(snapshot) ELSE files[p]]

\* Storage::save_snapshot: fs::write creates or replaces the file.
save_snapshot(files, snapshot, session) ==
    LET path == snapshot_path(snapshot.name, session) IN
    [p \in DOMAIN files \cup {path} |->
        IF p = path THEN snapshot_to_json(snapshot) ELSE files[p]]

\* Storage::load_snapshot_from_path
load_snapshot_from_path(files, path) == Ok(snapshot_from_json(files[path]))

\* A scan that answers a miss with an empty snapshot.
find_snapshot_or_default(files, name) ==
    LET hits == {s \in SnapSessions : snapshot_path(name, Some(s)) \in DOMAIN files} IN
    IF hits = {} THEN {Ok(Snapshot(name, 0, None, EmptyEnv, None))}
    ELSE {load_snapshot_from_path(files, snapshot_path(name, Some(s))) : s \in hits}

\* Storage::find_snapshot_in_sessions: read_dir yields the session directories
\* in no specified order, so the first match is any session holding the name.
\* The set of the results the call may return.
find_snapshot_in_sessions(files, name) ==
    LET hits == {s \in SnapSessions : snapshot_path(name, Some(s)) \in DOMAIN files} IN
    IF hits = {} THEN {Err("not found")}
    ELSE {load_snapshot_from_path(files, snapshot_path(name, Some(s))) : s \in hits}

\* A load whose session-scope miss goes on to scan every session.
load_snapshot_scan(files, name, session) ==
    LET path == snapshot_path(name, session)
        alt == snapshot_path(name, None)
    IN  IF path \in DOMAIN files THEN {load_snapshot_from_path(files, path)}
        ELSE IF IsSome(session) /\ alt \in DOMAIN files
             THEN {load_snapshot_from_path(files, alt)}
             ELSE find_snapshot_in_sessions(files, name)

\* Storage::load_snapshot: the set of the results the call may return.
load_snapshot(files, name, session) ==
    LET path == snapshot_path(name, session)
        alt == snapshot_path(name, None)
    IN  IF path \notin DOMAIN files
        THEN IF IsSome(session)
             THEN IF alt \in DOMAIN files
                  THEN {load_snapshot_from_path(files, alt)}
                  ELSE {Err("not found")}
             ELSE find_snapshot_in_sessions(files, name)
        ELSE {load_snapshot_from_path(files, path)}

\* std::fs::remove_file
remove_file(files, path) == [p \in DOMAIN files \ {path} |-> files[p]]

\* A delete that answers a miss with Ok.
delete_snapshot_quiet(files, name, session) ==
    LET own == snapshot_path(name, session)
        global == snapshot_path(name, None)
        hits == {s \in SnapSessions : snapshot_path(name, Some(s)) \in DOMAIN files}
    IN  IF IsSome(session) /\ own \in DOMAIN files
        THEN {[result |-> Ok("()"), files |-> remove_file(files, own)]}
        ELSE IF global \in DOMAIN files
        THEN {[result |-> Ok("()"), files |-> remove_file(files, global)]}
        ELSE IF hits # {}
        THEN {[result |-> Ok("()"),
               files |-> remove_file(files, snapshot_path(name, Some(s)))] : s \in hits}
        ELSE {[result |-> Ok("()"), files |-> files]}

\* Storage::delete_snapshot: the session's file, else the global one, else the
\* first one a scan of the session directories finds.  The set of the
\* (result, files afterwards) pairs the call may produce.
delete_snapshot(files, name, session) ==
    LET own == snapshot_path(name, session)
        global == snapshot_path(name, None)
        hits == {s \in SnapSessions : snapshot_path(name, Some(s)) \in DOMAIN files}
    IN  IF IsSome(session) /\ own \in DOMAIN files
        THEN {[result |-> Ok("()"), files |-> remove_file(files, own)]}
        ELSE IF global \in DOMAIN files
        THEN {[result |-> Ok("()"), files |-> remove_file(files, global)]}
        ELSE IF hits # {}
        THEN {[result |-> Ok("()"),
               files |-> remove_file(files, snapshot_path(name, Some(s)))] : s \in hits}
        ELSE {[result |-> Err("not found"), files |-> files]}

\* The orders in which read_dir may yield the files of a directory.
RECURSIVE Orders(_)
Orders(S) ==
    IF S = {} THEN {<<>>}
    ELSE UNION {{<<x>> \o o : o \in Orders(S \ {x})} : x \in S}

\* The snapshots of the <name>.json files of a scope's directory, in the
\* orders read_dir may yield them; a directory that does not exist has none.
DirSnapshots(files, session) ==
    LET paths == {p \in DOMAIN files : p[1] = session} IN
    {[i \in 1 .. Len(o) |-> load_snapshot_from_path(files, o[i]).value] :
        o \in Orders(paths)}

\* The place of x in a sequence sorted by created_at descending: after every
\* element that does not come after it (the sort is stable).
RECURSIVE InsertDesc(_, _)
InsertDesc(sorted, x) ==
    IF sorted = <<>> THEN <<x>>
    ELSE IF Head(sorted).created_at >= x.created_at
         THEN <<Head(sorted)>> \o InsertDesc(Tail(sorted), x)
         ELSE <<x>> \o sorted

\* A sort that leaves the snapshots in the order they were read.
RECURSIVE sort_by_none(_)
sort_by_none(snaps) ==
    IF snaps = <<>> THEN <<>>
    ELSE sort_by_none(SubSeq(snaps, 1, Len(snaps) - 1)) \o <<snaps[Len(snaps)]>>

\* snapshots.sort_by(|a, b| b.created_at.cmp(&a.created_at))
RECURSIVE sort_by_created_at_desc(_)
sort_by_created_at_desc(snaps) ==
    IF snaps = <<>> THEN <<>>
    ELSE InsertDesc(sort_by_created_at_desc(SubSeq(snaps, 1, Len(snaps) - 1)),
                    snaps[Len(snaps)])

\* Storage::list_snapshots: the session's snapshots, then the global ones,
\* sorted.  The set of the sequences the call may return.
list_snapshots(files, session) ==
    LET own == IF IsSome(session) THEN DirSnapshots(files, session) ELSE {<<>>}
    IN  {sort_by_created_at_desc(a \o b) :
            a \in own, b \in DirSnapshots(files, None)}

\* commands::snapshot: a Snapshot of the current environment, created now and
\* carrying the session id when it is saved in a session's scope.
SnapSave ==
    \E name \in SnapNames, session \in Scopes, env \in Envs :
        /\ \/ snapshot_path(name, session) \in DOMAIN snapshots
           \/ Cardinality(DOMAIN snapshots) < MaxSnaps
        /\ snapshots' = save_snapshot(snapshots,
                            Snapshot(name, now, None, env, session), session)
        /\ outcome' = [op |-> "save", name |-> name, session |-> session,
                       snapshot |-> Snapshot(name, now, None, env, session),
                       result |-> Ok("()")]
        /\ UNCHANGED <<startvars, lock, tracking, purevars, clientvars, store, now, nextId, pc, locals, reqs, resps, history>>

SnapLoad ==
    \E name \in SnapNames, session \in Scopes :
        \E r \in load_snapshot(snapshots, name, session) :
            /\ outcome' = [op |-> "load", name |-> name, session |-> session,
                           result |-> r]
            /\ UNCHANGED <<startvars, lock, tracking, purevars, clientvars, store, now, nextId, pc, locals, reqs, resps, history,
                           snapshots>>

SnapDelete ==
    \E name \in SnapNames, session \in Scopes :
        \E d \in delete_snapshot(snapshots, name, session) :
            /\ snapshots' = d.files
            /\ outcome' = [op |-> "delete", name |-> name, session |-> session,
                           result |-> d.result]
            /\ UNCHANGED <<startvars, lock, tracking, purevars, clientvars, store, now, nextId, pc, locals, reqs, resps, history>>

SnapList ==
    \E session \in Scopes :
        \E r \in list_snapshots(snapshots, session) :
            /\ outcome' = [op |-> "list", session |-> session, result |-> Ok(r)]
            /\ UNCHANGED <<startvars, lock, tracking, purevars, clientvars, store, now, nextId, pc, locals, reqs, resps, history,
                           snapshots>>

\* The CLI's snapshot commands run one after another against the store.
NextSnap == SnapSave \/ SnapLoad \/ SnapDelete \/ SnapList \/ Tick

SpecSnap == Init /\ [][NextSnap]_vars

\* --------------------------------------------------------------- client
\* The events send_event serializes: every one is a well-formed line.
ClientEvents == {l \in RaceLines(Pids) : ~IsBlank(l) /\ Parses(l)}

\* send_event calls are made one after another, each on a connection of its
\* own: connection c is used once the calls on the connections before it
\* have returned.
CanCall(c) ==
    /\ calls[c].pc = "idle"
    /\ \A d \in Conns : d < c => calls[d].pc = "done"

\* A call that has returned r; written tells whether its line was sent.
Returned(e, r, written) ==
    [pc |-> "done", event |-> e, result |-> r, written |-> written]

\* if !socket_path.exists() { return Ok(None) }
ClientAbsent(c) ==
    /\ CanCall(c)
    /\ ~socket
    /\ \E e \in ClientEvents : calls' = [calls EXCEPT ![c] = Returned(e, Ok(None), FALSE)]
    /\ UNCHANGED <<startvars, lock, tracking, purevars, socket, listening, snapvars, store, now, nextId, pc, locals,
                   reqs, resps, history>>

\* UnixStream::connect(&socket_path)...?: the socket file exists and no
\* process listens on it, the connection is refused and the error returned.
ClientRefused(c) ==
    /\ CanCall(c)
    /\ socket /\ ~listening
    /\ \E e \in ClientEvents :
        calls' = [calls EXCEPT ![c] =
                    Returned(e, Err("Failed to connect to daemon socket"), FALSE)]
    /\ UNCHANGED <<startvars, lock, tracking, purevars, socket, listening, snapvars, store, now, nextId, pc, locals,
                   reqs, resps, history>>

\* connect, writeln!(stream, "{}", event_json), flush: the line is on its way.
ClientWrite(c) ==
    /\ CanCall(c)
    /\ socket /\ listening
    /\ \E e \in ClientEvents : calls' = [calls EXCEPT ![c] = [pc |-> "written", event |-> e, written |-> TRUE]]
    /\ UNCHANGED <<startvars, lock, tracking, purevars, socket, listening, snapvars, store, now, nextId, pc, locals,
                   reqs, resps, history>>

\* read_line and serde_json::from_str of the response line.
ClientRead(c) ==
    /\ calls[c].pc = "written"
    /\ resps[c] # <<>>
    /\ calls' = [calls EXCEPT ![c] = Returned(@.event, Ok(Some(resps[c][1])), TRUE)]
    /\ UNCHANGED <<startvars, lock, tracking, purevars, socket, listening, snapvars, store, now, nextId, pc, locals,
                   reqs, resps, history>>

\* set_read_timeout(100 ms): no response line came in time.
ClientTimeout(c) ==
    /\ calls[c].pc = "written"
    /\ resps[c] = <<>>
    /\ calls' = [calls EXCEPT ![c] =
                   Returned(@.event, Err("Failed to read daemon response"), TRUE)]
    /\ UNCHANGED <<startvars, lock, tracking, purevars, socket, listening, snapvars, store, now, nextId, pc, locals,
                   reqs, resps, history>>

\* read_line returned Ok(0), the daemon having closed the connection without
\* a response: response_line.trim().is_empty(), return Ok(Some(Ok)).
ClientEof(c) ==
    /\ calls[c].pc = "written"
    /\ resps[c] = <<>>
    /\ pc[c] = "closed"
    /\ calls' = [calls EXCEPT ![c] = Returned(@.event, Ok(Some(RespOk)), TRUE)]
    /\ UNCHANGED <<startvars, lock, tracking, purevars, socket, listening, snapvars, store, now, nextId, pc, locals,
                   reqs, resps, history>>

\* The line the handler of connection c finds when it reads.
Connected(c) == calls[c].pc # "idle" /\ calls[c].written

Pending(c) ==
    IF Connected(c) /\ reqs[c] = <<>> THEN {calls[c].event} ELSE {}

\* The handler spawned for connection c reads the client's line, handles it
\* and writes the response; it reads end of file, or fails to write, once the
\* client has returned and dropped the stream.
Serve(c) ==
    \/ ReadRejected(c, Pending(c), Cardinality(Conns) + 1)
    \/ ReadEvent(c, Pending(c), Cardinality(Conns) + 1)
    \/ (calls[c].pc = "done" /\ reqs[c] # <<>> /\ ReadEof(c))
    \/ (Connected(c) /\ reqs[c] = <<>> /\ ReadFail(c))
    \/ LookupHit(c) \/ LookupMiss(c) \/ Create(c) \/ Insert(c)
    \/ Prev(c) \/ AppendText(c) \/ AppendNewline(c) \/ Touch(c) \/ Save(c)
    \/ (calls[c].pc = "written" /\ Respond(c))
    \/ (calls[c].pc = "done" /\ RespondFail(c))

\* EnvHistDaemon::new and run: a new process with an empty registry removes
\* the old socket file and binds a new one.
DaemonStart ==
    /\ ~listening
    /\ socket' = TRUE
    /\ listening' = TRUE
    /\ registry' = <<>>
    /\ UNCHANGED <<startvars, lock, tracking, purevars, calls, snapvars, timeline, metadata, now, nextId, pc, locals,
                   reqs, resps, history>>

\* The daemon process ends (killed): its handlers end with it and their
\* connections are closed; nothing removes the socket file.
DaemonExit ==
    /\ listening
    /\ listening' = FALSE
    /\ pc' = [c \in Conns |-> IF Connected(c) THEN "closed" ELSE pc[c]]
    /\ UNCHANGED <<startvars, lock, tracking, purevars, socket, calls, snapvars, store, now, nextId, locals,
                   reqs, resps, history>>

NextClient ==
    \/ \E c \in Conns :
        \/ ClientAbsent(c) \/ ClientRefused(c) \/ ClientWrite(c)
        \/ ClientRead(c) \/ ClientTimeout(c) \/ ClientEof(c)
        \/ Serve(c)
    \/ DaemonStart \/ DaemonExit \/ Tick

SpecClient == Init /\ [][NextClient]_vars

\* --------------------------------------------------------- daemon start
\* The frame of a step of a daemon process starting or ending.
StartFrame ==
    UNCHANGED <<lock, tracking, purevars, listening, calls, snapvars, store, now,
                nextId, pc, locals, reqs, resps, history>>

At(d, step) == daemons' = [daemons EXCEPT ![d].pc = step]

\* A daemon process is started: EnvHistDaemon::new, then run(socket_path).
\* `envhist daemon run` (run_daemon) and the envhist-daemon binary (main)
\* check nothing before.
Spawn(d, via) ==
    /\ daemons[d].pc = "down"
    /\ daemons' = [daemons EXCEPT ![d] = [pc |-> "exists", via |-> via]]
    /\ UNCHANGED <<socket, owner>>
    /\ StartFrame

RunDaemon(d) == Spawn(d, "run")

\* `envhist init`: if !is_daemon_running() { start_daemon() }, where
\* is_daemon_running is socket_path.exists().
StartDaemon(d) ==
    /\ ~socket
    /\ Spawn(d, "init")

\* run: if socket_path.exists()
RunExists(d) ==
    /\ daemons[d].pc = "exists"
    /\ At(d, IF socket THEN "remove" ELSE "bind")
    /\ UNCHANGED <<socket, owner>>
    /\ StartFrame

\* run: std::fs::remove_file(&socket_path)?; it fails, and the process ends,
\* when the file has gone since the test.
RunRemove(d) ==
    /\ daemons[d].pc = "remove"
    /\ IF socket
       THEN socket' = FALSE /\ owner' = NoOwner /\ At(d, "bind")
       ELSE At(d, "down") /\ UNCHANGED <<socket, owner>>
    /\ StartFrame

\* run: UnixListener::bind(&socket_path)?; it fails with EADDRINUSE, and the
\* process ends, when a file is at the path.
RunBind(d) ==
    /\ daemons[d].pc = "bind"
    /\ IF socket
       THEN At(d, "down") /\ UNCHANGED <<socket, owner>>
       ELSE socket' = TRUE /\ owner' = d /\ At(d, "listening")
    /\ StartFrame

\* The accept loop never returns: the process ends when it is killed, and
\* nothing removes the socket file.
RunKilled(d) ==
    /\ daemons[d].pc = "listening"
    /\ At(d, "down")
    /\ UNCHANGED <<socket, owner>>
    /\ StartFrame

NextStart ==
    \/ \E d \in Daemons :
        \/ RunDaemon(d) \/ StartDaemon(d)
        \/ RunExists(d) \/ RunRemove(d) \/ RunBind(d) \/ RunKilled(d)
    \/ Tick

SpecStart == Init /\ [][NextStart]_vars

\* ------------------------------------------------------ the registry lock
\* sessions: Arc<RwLock<HashMap<u32, Session>>>.  Each guard lives in a block
\* of its own: it is taken at the block's first statement and dropped at the
\* block's end, after the registry operation and before the statement that
\* follows the block.
LockFrame ==
    UNCHANGED <<startvars, tracking, purevars, clientvars, snapvars, store, now,
                nextId, pc, locals, reqs, resps, history>>

\* A handler whose guard lives to the end of handle_event.
GuardDroppedNever(c) == TRUE

\* The handler of connection c holds no guard: the block it took one in, if
\* any, has ended.
GuardDropped(c) == lock[c] = NoGuard

\* sessions.read().await: granted while no handler holds the write guard.
AcquireRead(c) ==
    /\ pc[c] = "lookup"
    /\ lock[c] = NoGuard
    /\ \A d \in Conns : lock[d] # "write"
    /\ lock' = [lock EXCEPT ![c] = "read"]
    /\ LockFrame

\* sessions.write().await: granted while no handler holds any guard.
AcquireWrite(c) ==
    /\ pc[c] \in {"insert", "touch"}
    /\ \A d \in Conns : lock[d] = NoGuard
    /\ lock' = [lock EXCEPT ![c] = "write"]
    /\ LockFrame

\* The end of the block (or the return from inside it): the guard is dropped.
Release(c) ==
    /\ lock[c] # NoGuard
    /\ pc[c] \notin {"lookup", "insert", "touch"}
    /\ lock' = [lock EXCEPT ![c] = NoGuard]
    /\ LockFrame

\* The steps of a handler after it has read a line, in program order: the
\* registry operations under their guard, everything else after the guard of
\* the block before has been dropped.
Work(c) ==
    \/ AcquireRead(c)
    \/ (lock[c] = "read" /\ LookupHit(c))
    \/ (lock[c] = "read" /\ LookupMiss(c))
    \/ AcquireWrite(c)
    \/ (lock[c] = "write" /\ Insert(c))
    \/ (lock[c] = "write" /\ Touch(c))
    \/ Release(c)
    \/ (GuardDropped(c) /\ Create(c))
    \/ (GuardDropped(c) /\ Prev(c))
    \/ (GuardDropped(c) /\ AppendFail(c))
    \/ (GuardDropped(c) /\ AppendText(c))
    \/ (GuardDropped(c) /\ AppendNewline(c))
    \/ (GuardDropped(c) /\ Save(c))
    \/ (GuardDropped(c) /\ SaveFail(c))
    \/ (GuardDropped(c) /\ Respond(c))
    \/ (GuardDropped(c) /\ RespondFail(c))

\* The request lines of the lock specification.
LockLines(P) ==
    {SetLine(p, "FOO", "bar") : p \in P}
    \cup {SetLine(p, "AWS_TOKEN", "bar") : p \in P}
    \cup {CaptureLine(p, [k \in {"FOO"} |-> "baz"]) : p \in P}
    \cup {GetSessionLine(p) : p \in P}

NextLock ==
    \E c \in Conns :
        \/ (GuardDropped(c) /\ ReadRejected(c, LockLines(Pids), MaxLines))
        \/ (GuardDropped(c) /\ ReadEvent(c, LockLines(Pids), MaxLines))
        \/ Work(c)

\* The tokio runtime runs every task that is ready, and the RwLock grants its
\* guards in the order they were asked for: a handler that can take a step
\* takes it.
SpecLock ==
    Init /\ [][NextLock]_vars /\ \A c \in Conns : WF_vars(Work(c))

\* ------------------------------------------------------ loaded policies
\* The filters Config::load may read from config.toml: the defaults, a file
\* whose ignore pattern matches every key, and a file with empty lists.
RejectAll == [force_track |-> {}, ignore_system |-> {}, ignore_patterns |-> {".*"}]
TrackAll == [force_track |-> {}, ignore_system |-> {}, ignore_patterns |-> {}]
PolicyConfigs == {config, RejectAll, TrackAll}

\* EnvHistDaemon::new: Config::load()
InitPolicy ==
    /\ registry = <<>>
    /\ timeline = <<>>
    /\ metadata = <<>>
    /\ now = 0
    /\ nextId = 1
    /\ pc = [c \in Conns |-> "read"]
    /\ line = [c \in Conns |-> BlankLine]
    /\ sess = [c \in Conns |-> NoSession]
    /\ prev = [c \in Conns |-> None]
    /\ resp = [c \in Conns |-> NoResp]
    /\ reqs = [c \in Conns |-> <<>>]
    /\ resps = [c \in Conns |-> <<>>]
    /\ appended = <<>>
    /\ observed = [p \in Pids |-> {}]
    /\ faulted = FALSE
    /\ snapshots = <<>>
    /\ outcome = NoOutcome
    /\ socket = FALSE
    /\ listening = FALSE
    /\ calls = [c \in Conns |-> NoCall]
    /\ daemons = [d \in Daemons |-> NoDaemon]
    /\ owner = NoOwner
    /\ lock = [c \in Conns |-> NoGuard]
    /\ tracking \in PolicyConfigs
    /\ args = NoArgs
    /\ ret = None

\* The request lines of the policy specification.
PolicyLines(P) ==
    {SetLine(p, "FOO", "bar") : p \in P}
    \cup {UnsetLine(p, "AWS_TOKEN") : p \in P}
    \cup {CaptureLine(p, e) : p \in P, e \in Envs}
    \cup {GetSessionLine(p) : p \in P}
    \cup {TruncatedLine(p, "FOO") : p \in P}
    \cup {BlankLine}

\* One connection, under each of the policies.
NextPolicy == Handler(1, PolicyLines(Pids), MaxLines) \/ Tick

SpecPolicy == InitPolicy /\ [][NextPolicy]_vars

\* ------------------------------------------------------- core library
\* EnvDiff
Added(key, value) == [tag |-> "Added", key |-> key, value |-> value]
Removed(key, old_value) == [tag |-> "Removed", key |-> key, old_value |-> old_value]
Changed(key, old_value, new_value) ==
    [tag |-> "Changed", key |-> key, old_value |-> old_value, new_value |-> new_value]
Unchanged(key, value) == [tag |-> "Unchanged", key |-> key, value |-> value]

\* The keys of the environments diffed, in the order String::cmp gives them.
DiffKeys == <<"VAR1", "VAR2", "VAR3">>

\* The first loop of diff_envs: what is pushed for a key of `new`.
FromNew(old_env, new_env, key) ==
    IF key \notin DOMAIN new_env THEN <<>>
    ELSE IF key \notin DOMAIN old_env THEN <<Added(key, new_env[key])>>
    ELSE IF old_env[key] # new_env[key]
         THEN <<Changed(key, old_env[key], new_env[key])>>
         ELSE <<Unchanged(key, old_env[key])>>

\* The second loop of diff_envs: what is pushed for a key of `old`.
FromOld(old_env, new_env, key) ==
    IF key \in DOMAIN old_env /\ key \notin DOMAIN new_env
    THEN <<Removed(key, old_env[key])>>
    ELSE <<>>

\* diff_envs: the diffs pushed by the two loops, after the stable sort by key:
\* for each key in order, what the first loop pushed, then the second.
RECURSIVE SortedDiffs(_, _, _)
SortedDiffs(old_env, new_env, keys) ==
    IF keys = <<>> THEN <<>>
    ELSE FromNew(old_env, new_env, Head(keys))
         \o FromOld(old_env, new_env, Head(keys))
         \o SortedDiffs(old_env, new_env, Tail(keys))

\* A diff_envs that returns the diffs as the two loops pushed them, unsorted.
diff_envs_unsorted(old_env, new_env) ==
    FromNew(old_env, new_env, DiffKeys[1]) \o FromNew(old_env, new_env, DiffKeys[2])
    \o FromNew(old_env, new_env, DiffKeys[3])
    \o FromOld(old_env, new_env, DiffKeys[1]) \o FromOld(old_env, new_env, DiffKeys[2])
    \o FromOld(old_env, new_env, DiffKeys[3])

diff_envs(old_env, new_env) == SortedDiffs(old_env, new_env, DiffKeys)

\* The environments diffed: VAR1 and VAR3 absent or set, VAR2 absent or set
\* to one of two values.
DiffValues ==
    [VAR1 |-> {"value1"}, VAR2 |-> {"value2", "value2_modified"},
     VAR3 |-> {"value3"}]

DiffEnvs ==
    LET all == UNION {[D -> {"value1", "value2", "value2_modified", "value3"}] :
                        D \in SUBSET {"VAR1", "VAR2", "VAR3"}}
    IN  {e \in all : \A k \in DOMAIN e : e[k] \in DiffValues[k]}

\* The filter lists and keys should_track is called with.
TrackConfigs ==
    [force_track : SUBSET {"AWS_TOKEN", "PATH"},
     ignore_system : SUBSET {"PATH"},
     ignore_patterns : SUBSET {".*TOKEN.*", "AWS_.*"}]

TrackKeys == {"FOO", "AWS_TOKEN", "PATH"}

\* A call of a function of the core library with arguments of the sets above.
InitPure ==
    /\ registry = <<>>
    /\ timeline = <<>>
    /\ metadata = <<>>
    /\ now = 0
    /\ nextId = 1
    /\ pc = [c \in Conns |-> "read"]
    /\ line = [c \in Conns |-> BlankLine]
    /\ sess = [c \in Conns |-> NoSession]
    /\ prev = [c \in Conns |-> None]
    /\ resp = [c \in Conns |-> NoResp]
    /\ reqs = [c \in Conns |-> <<>>]
    /\ resps = [c \in Conns |-> <<>>]
    /\ appended = <<>>
    /\ observed = [p \in Pids |-> {}]
    /\ faulted = FALSE
    /\ snapshots = <<>>
    /\ outcome = NoOutcome
    /\ socket = FALSE
    /\ listening = FALSE
    /\ calls = [c \in Conns |-> NoCall]
    /\ daemons = [d \in Daemons |-> NoDaemon]
    /\ owner = NoOwner
    /\ lock = [c \in Conns |-> NoGuard]
    /\ tracking = config
    /\ args \in {[fn |-> "diff_envs", old |-> o, new |-> n] :
                    o \in DiffEnvs, n \in DiffEnvs}
               \cup {[fn |-> "should_track", cfg |-> cfg, key |-> k] :
                    cfg \in TrackConfigs, k \in TrackKeys}
    /\ ret = None

CallDiffEnvs ==
    /\ args.fn = "diff_envs" /\ ret = None
    /\ ret' = Some(diff_envs(args.old, args.new))
    /\ UNCHANGED <<startvars, lock, tracking, args, clientvars, snapvars, store, now, nextId, pc, locals,
                   reqs, resps, history>>

CallShouldTrack ==
    /\ args.fn = "should_track" /\ ret = None
    /\ ret' = Some(should_track(args.cfg, args.key))
    /\ UNCHANGED <<startvars, lock, tracking, args, clientvars, snapvars, store, now, nextId, pc, locals,
                   reqs, resps, history>>

NextPure == CallDiffEnvs \/ CallShouldTrack

SpecPure == InitPure /\ [][NextPure]_vars

\* =================================================================== claims
\* The session ids handed out so far, and one on either side never handed out.
SessionIds == 1 .. (nextId - 1)
AppendedOf(sid) == IF sid \in DOMAIN appended THEN appended[sid] ELSE <<>>

\* The request lines of a connection that are not whitespace only.
RECURSIVE NonBlank(_)
NonBlank(ls) ==
    IF ls = <<>> THEN <<>>
    ELSE IF IsBlank(Head(ls)) THEN NonBlank(Tail(ls))
         ELSE <<Head(ls)>> \o NonBlank(Tail(ls))

\* Every line read on the connection that gets a response has got it.
Answered(c) == Len(resps[c]) = Len(NonBlank(reqs[c]))

\* C1: concurrent events for one unseen pid create exactly one session: all
\* handlers that resolve a pid are given the same Session id.
C1_OneSessionPerPid ==
    \A p \in Pids : Cardinality(observed[p]) <= 1

\* C2: whenever a handler waits for the next line, it has written as many
\* response lines as it has read request lines, blank lines included.
C2_OneResponsePerLine ==
    \A c \in Conns : pc[c] = "read" => Len(resps[c]) = Len(reqs[c])

\* C3: an unparsable line (here a Set object without its value) gets an Error
\* response, changes neither the registry nor any file, and leaves the handler
\* reading the next line with a clean state; the connection ends at that line
\* only if writing the response fails.
C3_MalformedLineRecovered ==
    [][\A c \in Conns :
        /\ (/\ Len(reqs'[c]) = Len(reqs[c]) + 1
            /\ \E p \in Pids : reqs'[c][Len(reqs'[c])] = TruncatedLine(p, "FOO"))
           => /\ pc'[c] = "respond"
              /\ resp'[c].tag = "Error"
              /\ store' = store
        /\ (/\ pc[c] = "respond"
            /\ \E p \in Pids : line[c] = TruncatedLine(p, "FOO")
            /\ pc'[c] # "respond")
           => /\ store' = store
              /\ \/ /\ pc'[c] = "read"
                    /\ resps'[c] = Append(resps[c], resp[c])
                    /\ resp[c].tag = "Error"
                    /\ line'[c] = BlankLine /\ sess'[c] = NoSession
                    /\ prev'[c] = None /\ resp'[c] = NoResp
                 \/ /\ pc'[c] = "closed"
                    /\ resps'[c] = resps[c]
      ]_vars

\* A connection sent an unparsable line and then GetSession, and was answered
\* Error and then Session.
C3_Witness ==
    \E c \in Conns, p \in Pids :
        /\ reqs[c] = <<TruncatedLine(p, "FOO"), GetSessionLine(p)>>
        /\ Len(resps[c]) = 2
        /\ resps[c][1].tag = "Error"
        /\ resps[c][2].tag = "Session"

\* C4: with appends made one after another, read_timeline of a session
\* succeeds and returns exactly the entries whose append returned Ok, in
\* append order; for a session id without a timeline file it returns the
\* empty sequence.
C4_ReadReturnsAppended ==
    \A sid \in 0 .. nextId :
        (\A c \in Conns : ~(pc[c] = "newline" /\ sess[c].id = sid))
        => LET r == read_timeline(timeline, [id |-> sid]) IN
           /\ r.ok
           /\ r.entries = AppendedOf(sid)
           /\ sid \notin DOMAIN timeline => r.entries = <<>>

\* Three entries were appended to one session and read back.
C4_Witness ==
    \E sid \in SessionIds :
        /\ Len(AppendedOf(sid)) = 3
        /\ \E i \in 1 .. 3 : AppendedOf(sid)[i].action = "Unset"
        /\ read_timeline(timeline, [id |-> sid]).entries = AppendedOf(sid)

\* The value of `key` in effect after the entries: the value of the last Set
\* of the key, absent when the key was never set or was last unset.
RECURSIVE InEffect(_, _)
InEffect(entries, key) ==
    IF entries = <<>> THEN None
    ELSE LET e == entries[Len(entries)] IN
         IF e.key = key THEN (IF e.action = "Set" THEN e.value ELSE None)
         ELSE InEffect(SubSeq(entries, 1, Len(entries) - 1), key)

OnlySetUnset(c) ==
    \A i \in 1 .. Len(reqs[c]) :
        ~IsBlank(reqs[c][i]) /\ Parses(reqs[c][i]) /\ IsKeyed(reqs[c][i])

\* C5: on a connection that sent only Set and Unset events, the prev of each
\* appended entry is the value of its key in effect just before the entry.
C5_PrevIsValueInEffect ==
    (\A c \in Conns : OnlySetUnset(c)) /\ ~faulted
    => \A sid \in SessionIds :
         \A i \in 1 .. Len(AppendedOf(sid)) :
            AppendedOf(sid)[i].prev =
                InEffect(SubSeq(AppendedOf(sid), 1, i - 1), AppendedOf(sid)[i].key)

TrackedSet(l, p, k) ==
    /\ ~IsBlank(l) /\ Parses(l) /\ l.tag = "Set"
    /\ l.pid = p /\ l.key = k /\ should_track(config, k)

NoCapture(c, p) ==
    \A i \in 1 .. Len(reqs[c]) :
        ~(~IsBlank(reqs[c][i]) /\ reqs[c][i].tag = "Capture" /\ reqs[c][i].pid = p)

\* The last three lines of connection c are Set k=v1, Set k=v2, GetSession for
\* pid p, all answered, with no Capture for p and no storage failure.
SetSetGet(c, p, k) ==
    LET n == Len(reqs[c]) IN
    /\ n >= 3
    /\ TrackedSet(reqs[c][n - 2], p, k)
    /\ TrackedSet(reqs[c][n - 1], p, k)
    /\ reqs[c][n] = GetSessionLine(p)
    /\ Answered(c)
    /\ NoCapture(c, p)
    /\ ~faulted

\* C6: Set k=v1, Set k=v2, GetSession on one connection are answered Ok, Ok,
\* Session with the request's pid; the session's timeline ends with the two
\* Set entries, the second with prev = v1, and holds nothing else when these
\* are the only lines sent.
C6_SetSetGetSession ==
    \A c \in Conns, p \in Pids, k \in Keys :
        SetSetGet(c, p, k)
        => LET n == Len(reqs[c])
               m == Len(resps[c])
               s == resps[c][m].session
               r == read_timeline(timeline, s)
               j == Len(r.entries)
           IN /\ resps[c][m - 2] = RespOk
              /\ resps[c][m - 1] = RespOk
              /\ resps[c][m].tag = "Session"
              /\ s.pid = p
              /\ r.ok /\ j >= 2
              /\ r.entries[j - 1].action = "Set"
              /\ r.entries[j - 1].key = k
              /\ r.entries[j - 1].value = Some(reqs[c][n - 2].value)
              /\ r.entries[j] =
                    Entry("Set", k, Some(reqs[c][n - 1].value), Some(reqs[c][n - 2].value))
              /\ n = 3 => (j = 2 /\ r.entries[1].prev = None)

C6_Witness ==
    \E c \in Conns, p \in Pids :
        /\ SetSetGet(c, p, "FOO")
        /\ reqs[c][1].value = "bar" /\ reqs[c][2].value = "baz"
        /\ Len(reqs[c]) = 3

\* resolve_previous with fall-through: the capture when it holds the key,
\* otherwise the most recent timeline entry mentioning the key, else absent.
ResolveWithFallThrough(session, key) ==
    IF session.id \in DOMAIN metadata /\ key \in DOMAIN metadata[session.id].current_env
    THEN Some(metadata[session.id].current_env[key])
    ELSE LET r == read_timeline(timeline, session) IN
         IF r.ok THEN LastMention(r.entries, key) ELSE None

\* C7: get_previous_value falls through from a capture that lacks the key to
\* the timeline.
C7_PrevFallsThrough ==
    \A sid \in SessionIds, k \in Keys :
        get_previous_value([id |-> sid], k, metadata, timeline)
            = ResolveWithFallThrough([id |-> sid], k)

\* Keys the policy of section 8 rejects.
Rejected(l) ==
    /\ ~IsBlank(l) /\ l.tag \in {"Set", "Unset"}
    /\ "key" \in DOMAIN l /\ RegexMatch("AWS_.*", l.key)

\* C8: a Set or Unset of a rejected key is answered Ok and, from the read of
\* its line to the write of its response, its handler changes neither the
\* registry (no session created, none touched) nor any timeline or metadata.
C8_RejectedKeyNoEffect ==
    [][\A c \in Conns :
        /\ (Len(reqs'[c]) = Len(reqs[c]) + 1 /\ Rejected(reqs'[c][Len(reqs'[c])]))
           => /\ pc'[c] = "respond"
              /\ resp'[c] = RespOk
              /\ store' = store /\ appended' = appended
        /\ (pc[c] = "respond" /\ Rejected(line[c]) /\ pc'[c] # "respond")
           => /\ store' = store /\ appended' = appended
              /\ \/ pc'[c] = "read" /\ resps'[c] = Append(resps[c], RespOk)
                 \/ pc'[c] = "closed" /\ resps'[c] = resps[c]
      ]_vars

\* A rejected Set was the first event and was answered Ok: there is no
\* session and no file.
C8_Witness ==
    \E c \in Conns, p \in Pids :
        /\ reqs[c] = <<SetLine(p, "AWS_TOKEN", "bar")>>
        /\ resps[c] = <<RespOk>>
        /\ registry = <<>> /\ timeline = <<>> /\ metadata = <<>>

\* C9: the registry's last_updated for a pid never goes back, and is never
\* before started_at.
C9_LastUpdatedMonotonic ==
    [][\A p \in DOMAIN registry :
        /\ p \in DOMAIN registry'
        /\ registry'[p].last_updated >= registry[p].last_updated
        /\ registry'[p].last_updated >= registry'[p].started_at
      ]_vars

\* The Session responses connection c got for pid p.
SessionsReturned(c, p) ==
    {resps[c][i].session : i \in {j \in 1 .. Len(resps[c]) :
        resps[c][j].tag = "Session" /\ resps[c][j].session.pid = p}}

\* C10: the session GetSession creates has started_at = last_updated and the
\* requested pid; the touch of a later Set keeps its id and started_at and
\* sets last_updated to the time of the touch, never an earlier one; so after
\* every step the registry holds the id and started_at every Session response
\* carried.  Events are handled one after another.
C10_CreateThenTouch ==
    [][/\ \A c \in Conns, p \in Pids : \A s \in SessionsReturned(c, p)' :
            /\ p \in DOMAIN registry'
            /\ registry'[p].id = s.id
            /\ registry'[p].started_at = s.started_at
            /\ registry'[p].last_updated >= s.last_updated
       /\ \A c \in Conns :
            /\ (pc[c] = "insert" /\ pc'[c] # "insert" /\ line[c].tag = "GetSession")
               => /\ resp'[c] = RespSession(registry'[line[c].pid])
                  /\ registry'[line[c].pid].started_at = registry'[line[c].pid].last_updated
                  /\ registry'[line[c].pid].pid = line[c].pid
            /\ (pc[c] = "touch" /\ pc'[c] # "touch" /\ line[c].pid \in DOMAIN registry)
               => /\ registry'[line[c].pid].id = registry[line[c].pid].id
                  /\ registry'[line[c].pid].started_at = registry[line[c].pid].started_at
                  /\ registry'[line[c].pid].last_updated = now
                  /\ registry'[line[c].pid].last_updated >= registry[line[c].pid].last_updated
      ]_vars

\* GetSession created the session, a later Set touched it at a later time.
C10_Witness ==
    \E c \in Conns, p \in Pids :
        /\ Len(reqs[c]) = 2 /\ Answered(c)
        /\ reqs[c][1] = GetSessionLine(p)
        /\ TrackedSet(reqs[c][2], p, "FOO")
        /\ resps[c][1].tag = "Session"
        /\ resps[c][2] = RespOk
        /\ registry[p].id = resps[c][1].session.id
        /\ registry[p].last_updated > resps[c][1].session.last_updated

\* C11: a session in the registry is never removed and never replaced: the
\* registry keeps the Session id it holds for a pid.
C11_SessionNeverReplaced ==
    [][\A p \in DOMAIN registry :
        /\ p \in DOMAIN registry'
        /\ registry'[p].id = registry[p].id
      ]_vars

\* No handler is between the two writes of an append to the session's file.
NoAppendInFlight(sid) ==
    \A c \in Conns : ~(pc[c] = "newline" /\ sess[c].id = sid)

\* C12: concurrent appends to one session serialize: once the appends have
\* returned, read_timeline succeeds and returns every appended entry, each
\* from a line of its own.
C12_ConcurrentAppendsSerialize ==
    \A sid \in SessionIds :
        NoAppendInFlight(sid)
        => LET r == read_timeline(timeline, [id |-> sid]) IN
           /\ r.ok
           /\ Len(r.entries) = Len(AppendedOf(sid))
           /\ \A e \in {AppendedOf(sid)[i] : i \in 1 .. Len(AppendedOf(sid))} :
                \E j \in 1 .. Len(r.entries) : r.entries[j] = e

IsPrefix(s, t) == Len(s) <= Len(t) /\ SubSeq(t, 1, Len(s)) = s

\* C13: timelines are append-only: every step leaves each timeline file in
\* place and its earlier content a prefix of its later content.
C13_TimelineAppendOnly ==
    [][\A sid \in DOMAIN timeline :
        /\ sid \in DOMAIN timeline'
        /\ IsPrefix(timeline[sid], timeline'[sid])
      ]_vars

\* Two entries were appended to one timeline, one after the other.
C13_Witness ==
    \E sid \in DOMAIN timeline :
        /\ Len(timeline[sid]) = 4
        /\ Len(AppendedOf(sid)) = 2
        /\ read_timeline(timeline, [id |-> sid]).ok

\* The registry entry of a pid and the file of a session id, absent or present.
EntryAt(f, x) == IF x \in DOMAIN f THEN <<f[x]>> ELSE <<>>

\* A step of connection c's handler, and the pid of the event it handles
\* (0 while the line is blank).
StepOf(c) == pc'[c] # pc[c] \/ reqs'[c] # reqs[c]
EventPid(c) ==
    IF pc[c] = "read"
    THEN (IF IsBlank(line'[c]) THEN 0 ELSE line'[c].pid)
    ELSE (IF IsBlank(line[c]) THEN 0 ELSE line[c].pid)

\* The steps a handler takes between reading a line and reading the next.
Progress(c) ==
    \/ LookupHit(c) \/ LookupMiss(c) \/ Create(c) \/ Insert(c)
    \/ Prev(c) \/ AppendText(c) \/ AppendNewline(c) \/ Touch(c)
    \/ Save(c) \/ Respond(c)

\* C14: a step handling an event of pid p changes neither the registry entry
\* of another pid q nor the timeline or metadata of q's sessions; the step
\* that ends one handler changes nothing of the store and nothing of the
\* other handlers; and a handler in the middle of an event always has its
\* next step enabled, whatever the other handlers did.
C14_OtherPidsUntouched ==
    [][\A c \in Conns :
        /\ StepOf(c) =>
             \A q \in AllPids \ {EventPid(c)} :
                /\ EntryAt(registry', q) = EntryAt(registry, q)
                /\ \A sid \in observed[q] :
                     /\ EntryAt(timeline', sid) = EntryAt(timeline, sid)
                     /\ EntryAt(metadata', sid) = EntryAt(metadata, sid)
        /\ (StepOf(c) /\ pc'[c] = "closed") =>
             /\ store' = store
             /\ \A d \in Conns \ {c} :
                  /\ pc'[d] = pc[d] /\ line'[d] = line[d] /\ sess'[d] = sess[d]
                  /\ prev'[d] = prev[d] /\ resp'[d] = resp[d]
                  /\ resps'[d] = resps[d]
        /\ pc[c] \notin {"read", "closed"} => ENABLED Progress(c)
      ]_vars

\* Connection 1 appended a Set for its pid and ended on a failed write of the
\* response; connection 2 had its session before and got its Ok after.
C14_Witness ==
    /\ pc[1] = "closed" /\ Len(reqs[1]) = 1 /\ resps[1] = <<>>
    /\ \E sid \in DOMAIN appended : Len(appended[sid]) = 1
    /\ Len(reqs[2]) = 1 /\ resps[2] = <<RespOk>> /\ reqs[2][1].tag = "Capture"
    /\ AllPids \subseteq DOMAIN registry

\* An event that reaches get_or_create_session: parsed, its key tracked.
Accepted(l) ==
    /\ ~IsBlank(l) /\ Parses(l)
    /\ IsKeyed(l) => should_track(config, l.key)

\* An earlier line of connection c was an accepted event for the pid of the
\* line being handled: the session of that pid existed before this event.
HadSession(c) ==
    \E i \in 1 .. (Len(reqs[c]) - 1) :
        Accepted(reqs[c][i]) /\ reqs[c][i].pid = line[c].pid

\* With events handled one after another, HadSession is what the lookup finds.
HadSessionIsLookupHit ==
    pc[1] = "lookup" => (HadSession(1) <=> line[1].pid \in DOMAIN registry)

\* C15: when handle_event completes successfully an accepted Set, Unset,
\* Capture or GetSession for a pid whose session existed before the event,
\* the registry's last_updated for that pid is the time of that completion.
C15_EveryEventRefreshes ==
    [][\A c \in Conns :
        ( /\ pc[c] \notin {"read", "respond", "closed"}
          /\ pc'[c] = "respond"
          /\ resp'[c].tag # "Error"
          /\ Accepted(line[c])
          /\ HadSession(c) )
        => registry'[line[c].pid].last_updated = now'
      ]_vars

\* C16: the step that completes a Capture with Ok stores exactly the env of
\* the event as the session's capture; no other step changes a stored capture;
\* and after every step that changes the registry, a capture or a timeline,
\* get_previous_value answers every key of the stored capture with the
\* captured value.
C16_CaptureReplaces ==
    [][/\ \A c \in Conns :
            (pc[c] = "save" /\ pc'[c] = "respond" /\ resp'[c] = RespOk)
            => /\ sess[c].id \in DOMAIN metadata'
               /\ metadata'[sess[c].id].current_env = line[c].env
       /\ \A sid \in DOMAIN metadata' :
            EntryAt(metadata', sid) # EntryAt(metadata, sid)
            => \E c \in Conns :
                 /\ pc[c] = "save" /\ sess[c].id = sid
                 /\ line[c].tag = "Capture" /\ resp'[c] = RespOk
       /\ (metadata' # metadata \/ timeline' # timeline \/ registry' # registry)
          => \A p \in DOMAIN registry' :
               LET s == registry'[p] IN
               s.id \in DOMAIN metadata'
               => \A k \in DOMAIN metadata'[s.id].current_env :
                    get_previous_value(s, k, metadata', timeline')
                      = Some(metadata'[s.id].current_env[k])
      ]_vars

\* Capture{FOO: bar} then Capture{} were both answered Ok: the stored capture
\* is the empty one.
C16_Witness ==
    /\ Len(reqs[1]) = 2 /\ resps[1] = <<RespOk, RespOk>>
    /\ reqs[1][1] = CaptureLine(100, [k \in {"FOO"} |-> "bar"])
    /\ reqs[1][2] = CaptureLine(100, EmptyEnv)
    /\ \E sid \in DOMAIN metadata : metadata[sid].current_env = EmptyEnv

\* A step that is a save, a load or a delete of Storage.
SaveStep == outcome'.op = "save" /\ (outcome' # outcome \/ snapshots' # snapshots)
LoadStep == outcome'.op = "load" /\ outcome' # outcome
DeleteStep == outcome'.op = "delete" /\ (outcome' # outcome \/ snapshots' # snapshots)

\* The snapshot stored in the file at path.
StoredAt(files, path) == snapshot_from_json(files[path])

\* C17: a save of name n in a scope writes that scope's file and leaves every
\* other file as it was, the same name in another scope included, and n loads
\* back from that scope as the snapshot just saved; while n is stored both in
\* a session's scope and in the global scope, load(n, global) returns the
\* global one and load(n, that session) the session's.
C17_NamesUniquePerScope ==
    [][LET n == outcome'.name
           sc == outcome'.session
           own == snapshot_path(n, sc)
       IN  /\ SaveStep =>
                /\ own \in DOMAIN snapshots'
                /\ \A p \in DOMAIN snapshots \ {own} :
                     p \in DOMAIN snapshots' /\ snapshots'[p] = snapshots[p]
                /\ DOMAIN snapshots' = DOMAIN snapshots \cup {own}
                /\ \A r \in load_snapshot(snapshots', n, sc) :
                     /\ r.ok /\ r.value.name = n /\ r.value.session_id = sc
                     /\ r.value.created_at = now
           /\ ( /\ LoadStep
                /\ snapshot_path(n, None) \in DOMAIN snapshots
                /\ \E s \in SnapSessions :
                     snapshot_path(n, Some(s)) \in DOMAIN snapshots
                /\ own \in DOMAIN snapshots )
              => /\ outcome'.result = Ok(StoredAt(snapshots, own))
                 /\ outcome'.result.value.session_id = sc
      ]_vars

\* "nightly" is stored in session 1's scope and, with another environment, in
\* the global scope; load("nightly", session 1) returned the session's.
C17_Witness ==
    /\ outcome.op = "load" /\ outcome.name = "nightly" /\ outcome.session = Some(1)
    /\ snapshot_path("nightly", None) \in DOMAIN snapshots
    /\ snapshot_path("nightly", Some(1)) \in DOMAIN snapshots
    /\ StoredAt(snapshots, snapshot_path("nightly", None)).environment
         # StoredAt(snapshots, snapshot_path("nightly", Some(1))).environment
    /\ outcome.result = Ok(StoredAt(snapshots, snapshot_path("nightly", Some(1))))

\* C18: a delete of a name stored in no scope returns the not-found error and
\* leaves the files as they were; a delete that returns Ok has removed exactly
\* one file of that name; a delete that returns an error has removed none.
C18_DeleteMissIsError ==
    [][DeleteStep =>
        LET n == outcome'.name
            r == outcome'.result
        IN  /\ (\A sc \in Scopes : snapshot_path(n, sc) \notin DOMAIN snapshots)
               => (~r.ok /\ r.error = "not found" /\ snapshots' = snapshots)
            /\ r.ok =>
                 \E sc \in Scopes :
                    /\ snapshot_path(n, sc) \in DOMAIN snapshots
                    /\ DOMAIN snapshots' = DOMAIN snapshots \ {snapshot_path(n, sc)}
                    /\ \A p \in DOMAIN snapshots' : snapshots'[p] = snapshots[p]
            /\ ~r.ok => snapshots' = snapshots
      ]_vars

\* delete("other", session 1) found nothing and left the two stored "nightly"
\* snapshots in place.
C18_Witness ==
    /\ outcome.op = "delete" /\ outcome.name = "other" /\ outcome.session = Some(1)
    /\ ~outcome.result.ok
    /\ snapshot_path("nightly", None) \in DOMAIN snapshots
    /\ snapshot_path("nightly", Some(1)) \in DOMAIN snapshots

\* C19: load(name, session S) returns S's snapshot if stored, else the global
\* one, else fails without looking into other sessions; load(name, global)
\* returns the global snapshot if stored, else the snapshot of some session
\* that stores the name.
C19_LoadFallbackOrder ==
    [][LoadStep =>
        LET n == outcome'.name
            sc == outcome'.session
            own == snapshot_path(n, sc)
            glob == snapshot_path(n, None)
            r == outcome'.result
            hits == {s \in SnapSessions :
                        snapshot_path(n, Some(s)) \in DOMAIN snapshots}
        IN  IF own \in DOMAIN snapshots THEN r = Ok(StoredAt(snapshots, own))
            ELSE IF IsSome(sc)
            THEN IF glob \in DOMAIN snapshots
                 THEN r = Ok(StoredAt(snapshots, glob))
                 ELSE ~r.ok
            ELSE hits # {} =>
                   \E s \in hits :
                      r = Ok(StoredAt(snapshots, snapshot_path(n, Some(s))))
      ]_vars

\* "nightly" is stored by sessions 1 and 2 and not globally;
\* load("nightly", global) returned session 2's.
C19_Witness ==
    /\ outcome.op = "load" /\ outcome.name = "nightly" /\ outcome.session = None
    /\ snapshot_path("nightly", None) \notin DOMAIN snapshots
    /\ snapshot_path("nightly", Some(1)) \in DOMAIN snapshots
    /\ snapshot_path("nightly", Some(2)) \in DOMAIN snapshots
    /\ outcome.result.ok /\ outcome.result.value.session_id = Some(2)

\* The paths load_snapshot looks at for a name and a scope.
Consulted(n, sc) ==
    IF IsSome(sc) THEN {snapshot_path(n, sc), snapshot_path(n, None)}
    ELSE {snapshot_path(n, x) : x \in Scopes}

\* C20: a load of a name stored in none of the scopes the lookup consults
\* returns the not-found error; every snapshot a load returns is one stored
\* under that name.
C20_LoadMissIsError ==
    [][LoadStep =>
        LET n == outcome'.name
            r == outcome'.result
        IN  /\ Consulted(n, outcome'.session) \cap DOMAIN snapshots = {}
               => (~r.ok /\ r.error = "not found")
            /\ r.ok => \E p \in Consulted(n, outcome'.session) \cap DOMAIN snapshots :
                          r.value = StoredAt(snapshots, p)
      ]_vars

\* Nothing is stored under "other" while "nightly" is: load("other", global)
\* failed.
C20_Witness ==
    /\ outcome.op = "load" /\ outcome.name = "other" /\ outcome.session = None
    /\ ~outcome.result.ok /\ outcome.result.error = "not found"
    /\ \A sc \in Scopes : snapshot_path("other", sc) \notin DOMAIN snapshots
    /\ snapshot_path("nightly", None) \in DOMAIN snapshots

\* C21: after a save, load of the saved name in the saved scope returns exactly
\* the snapshot that was saved, its whole environment included; a save under
\* a name the scope already holds replaces that file and adds none, so the
\* scope's listing shows the name once.
C21_SaveLoadRoundTrip ==
    [][SaveStep =>
        LET n == outcome'.name
            sc == outcome'.session
            own == snapshot_path(n, sc)
        IN  /\ load_snapshot(snapshots', n, sc) = {Ok(outcome'.snapshot)}
            /\ \A r \in load_snapshot(snapshots', n, sc) :
                 /\ DOMAIN r.value.environment = DOMAIN outcome'.snapshot.environment
                 /\ \A k \in DOMAIN r.value.environment :
                      r.value.environment[k] = outcome'.snapshot.environment[k]
            /\ own \in DOMAIN snapshots => DOMAIN snapshots' = DOMAIN snapshots
            /\ \A l \in list_snapshots(snapshots', sc) :
                 Cardinality({i \in 1 .. Len(l) :
                     l[i].name = n /\ l[i].session_id = sc}) = 1
      ]_vars

\* "nightly" was saved in session 1's scope at time 1 with FOO in its
\* environment, and the file holds it.
C21_Witness ==
    /\ outcome.op = "save" /\ outcome.name = "nightly" /\ outcome.session = Some(1)
    /\ outcome.snapshot.created_at = 1
    /\ "FOO" \in DOMAIN outcome.snapshot.environment
    /\ StoredAt(snapshots, snapshot_path("nightly", Some(1))) = outcome.snapshot

ListStep == outcome'.op = "list" /\ outcome' # outcome

\* C22: the sequence list returns is ordered by created_at descending, and it
\* holds one snapshot for every file of the session's scope and of the global
\* scope.
C22_ListSortedDescending ==
    [][ListStep =>
        LET l == outcome'.result.value
            sc == outcome'.session
            paths == {p \in DOMAIN snapshots : p[1] = sc \/ p[1] = None}
        IN  /\ \A i \in 1 .. (Len(l) - 1) : l[i].created_at >= l[i + 1].created_at
            /\ Len(l) = Cardinality(paths)
            /\ \A p \in paths : \E i \in 1 .. Len(l) : l[i] = StoredAt(snapshots, p)
      ]_vars

\* list(session 1) returned the later global snapshot before the earlier
\* snapshot of the session, whose directory is read first.
C22_Witness ==
    /\ outcome.op = "list" /\ outcome.session = Some(1)
    /\ Len(outcome.result.value) = 2
    /\ outcome.result.value[1].session_id = None
    /\ outcome.result.value[2].session_id = Some(1)
    /\ outcome.result.value[1].created_at > outcome.result.value[2].created_at

C24_UnreachableDaemonIsOptional ==
    [][\A c \in Conns :
        (calls[c].pc = "idle" /\ calls'[c].pc # "idle" /\ ~listening)
        => /\ calls'[c].pc = "done"
           /\ calls'[c].result = Ok(None)
           /\ store' = store /\ reqs' = reqs
      ]_vars

\* The JSON texts written into a timeline file.
TextsOf(file) == {file[i].text : i \in {j \in 1 .. Len(file) : ~IsNewline(file[j])}}

\* Neither the session's capture nor a text of its timeline mentions the key.
NoMention(sid, key) ==
    /\ sid \in DOMAIN metadata => key \notin DOMAIN metadata[sid].current_env
    /\ sid \in DOMAIN timeline => \A j \in TextsOf(timeline[sid]) : j.key # key

\* C25: every entry written into a timeline is a Set with a value or an Unset
\* without one; the entry written for a Set or Unset carries the event's
\* action, key and value, and has prev = null when neither the capture nor an
\* earlier entry of the session mentions the key.
C25_EntryShape ==
    [][/\ \A sid \in DOMAIN timeline' :
            \A j \in TextsOf(timeline'[sid]) :
                /\ from_json_ok(j)
                /\ from_json(j).action = "Unset" => from_json(j).value = None
                /\ from_json(j).action = "Set" => IsSome(from_json(j).value)
       /\ \A c \in Conns :
            (pc[c] = "append" /\ pc'[c] = "newline")
            => LET file == timeline'[sess[c].id]
                   e == from_json(file[Len(file)].text)
               IN  /\ e.action = line[c].tag /\ e.key = line[c].key
                   /\ line[c].tag = "Set" => e.value = Some(line[c].value)
                   /\ line[c].tag = "Unset" => e.value = None
                   /\ NoMention(sess[c].id, line[c].key) => e.prev = None
      ]_vars

\* Set FOO=bar was appended with prev null where nothing mentioned FOO, and
\* Unset FOO after it without a value.
C25_Witness ==
    /\ 100 \in DOMAIN registry
    /\ read_timeline(timeline, registry[100]).entries
         = <<Entry("Set", "FOO", Some("bar"), None),
             Entry("Unset", "FOO", None, Some("bar"))>>

\* The environments of tests::test_diff_envs.
TestOld == [k \in {"VAR1", "VAR2"} |-> IF k = "VAR1" THEN "value1" ELSE "value2"]
TestNew ==
    [k \in {"VAR1", "VAR2", "VAR3"} |->
        CASE k = "VAR1" -> "value1"
          [] k = "VAR2" -> "value2_modified"
          [] OTHER -> "value3"]

\* C26: the result of diff_envs(old, new) reports every key that is in both
\* maps with different values both as Changed and as Removed; for the maps of
\* test_diff_envs it has exactly 4 entries.
C26_ChangedAlsoRemoved ==
    (args.fn = "diff_envs" /\ IsSome(ret))
    => LET d == ret[1] IN
       /\ \A k \in DOMAIN args.old \cap DOMAIN args.new :
            args.old[k] # args.new[k]
            => /\ \E i \in 1 .. Len(d) : d[i] = Changed(k, args.old[k], args.new[k])
               /\ \E i \in 1 .. Len(d) : d[i] = Removed(k, args.old[k])
       /\ (args.old = TestOld /\ args.new = TestNew) => Len(d) = 4

Forced(cfg, key) == \E p \in cfg.force_track : RegexMatch(p, key)
Ignored(cfg, key) ==
    \/ key \in cfg.ignore_system
    \/ \E p \in cfg.ignore_patterns : RegexMatch(p, key)

\* C27: should_track answers true for a key that matches a force_track
\* pattern, whatever the ignore lists say; otherwise false for a key in
\* ignore_system or matching an ignore pattern; and true for every other key.
C27_TrackPriorityOrder ==
    (args.fn = "should_track" /\ IsSome(ret))
    => /\ Forced(args.cfg, args.key) => ret[1] = TRUE
       /\ (~Forced(args.cfg, args.key) /\ Ignored(args.cfg, args.key))
          => ret[1] = FALSE
       /\ (~Forced(args.cfg, args.key) /\ ~Ignored(args.cfg, args.key))
          => ret[1] = TRUE

\* PATH is in ignore_system and AWS_TOKEN matches both ignore patterns; with
\* AWS_TOKEN forced, should_track("AWS_TOKEN") returned true.
C27_Witness ==
    /\ args.fn = "should_track" /\ args.key = "AWS_TOKEN"
    /\ args.cfg = [force_track |-> {"AWS_TOKEN"}, ignore_system |-> {"PATH"},
                   ignore_patterns |-> {".*TOKEN.*", "AWS_.*"}]
    /\ ret = Some(TRUE)

\* r is a response handle_client may write for the request line l.
Answers(l, r) ==
    IF ~Parses(l) THEN r.tag = "Error"
    ELSE IF l.tag = "GetSession"
         THEN r.tag = "Error" \/ (r.tag = "Session" /\ r.session.pid = l.pid)
         ELSE r.tag \in {"Ok", "Error"}

\* C28: on each connection a line is read only when every earlier request
\* line (a line that is not blank) has its response written; after every read
\* and every write at most one request is without its response; responses are
\* only ever added at the end; and the response written as the i-th answers
\* the i-th request line.
C28_OneRequestAtATime ==
    [][\A c \in Conns :
        /\ Len(reqs'[c]) # Len(reqs[c])
           => /\ pc[c] = "read"
              /\ reqs'[c] = Append(reqs[c], reqs'[c][Len(reqs'[c])])
              /\ Len(resps[c]) = Len(NonBlank(reqs[c]))
        /\ (reqs'[c] # reqs[c] \/ resps'[c] # resps[c])
           => Len(NonBlank(reqs'[c])) - Len(resps'[c]) \in {0, 1}
        /\ resps'[c] # resps[c]
           => /\ pc[c] = "respond"
              /\ resps'[c] = Append(resps[c], resps'[c][Len(resps'[c])])
              /\ Answers(NonBlank(reqs[c])[Len(resps'[c])],
                         resps'[c][Len(resps'[c])])
      ]_vars

\* Connection 1 sent GetSession and then Set FOO=bar: the Session response
\* was written first, the Ok second.
C28_Witness ==
    /\ reqs[1] = <<GetSessionLine(100), SetLine(100, "FOO", "bar")>>
    /\ Len(resps[1]) = 2
    /\ resps[1][1].tag = "Session" /\ resps[1][2] = RespOk

\* The handler of connection c is handling a Set event.
HandlingSet(c) == ~IsBlank(line[c]) /\ Parses(line[c]) /\ line[c].tag = "Set"

\* After the step, the Set of connection c is fully applied: its session is in
\* the registry and touched now, its entry is appended to the session's
\* timeline.
FullyApplied(c) ==
    /\ line[c].pid \in DOMAIN registry'
    /\ registry'[line[c].pid].last_updated = now'
    /\ sess[c].id \in DOMAIN appended'
    /\ appended'[sess[c].id][Len(appended'[sess[c].id])] = EntryOf(c)
    /\ to_json(EntryOf(c)) \in TextsOf(timeline'[sess[c].id])

C30_GetSessionIsPureLookup ==
    [][\A c \in Conns :
        (StepOf(c) /\ pc[c] # "read" /\ ~IsBlank(line[c]) /\ Parses(line[c])
            /\ line[c].tag = "GetSession")
        => registry' = registry
      ]_vars

\* The daemon process d is listening behind the socket file at the path.
Live(d) == socket /\ owner = d /\ daemons[d].pc = "listening"

\* C31: while a daemon process is listening on the socket file at the path, no
\* step removes that file or puts another process's socket in its place.
C31_LiveSocketNotRemoved ==
    [][\A d \in Daemons : Live(d) => (socket' /\ owner' = d)]_vars

\* The handler of connection c has dispatched an event and not yet written
\* its response (or found the client gone).
Dispatched(c) == pc[c] \notin {"read", "closed"}

\* C32: a handler that holds a guard of the registry lock takes no step but
\* the registry operation of its block and the release (no file is read or
\* written and no socket is used under the lock); guards exclude each other
\* as those of a readers-writer lock do; while an event is being handled some
\* handler can take a step; and every dispatched event comes to its end, the
\* response written or the client found gone.
C32_NoHandlerBlocks ==
    /\ [][\A c \in Conns :
            (StepOf(c) /\ lock[c] # NoGuard)
            => /\ pc[c] \in {"lookup", "insert", "touch"}
               /\ timeline' = timeline /\ metadata' = metadata
               /\ reqs' = reqs /\ resps' = resps
          ]_vars
    /\ [](\A c, d \in Conns : (c # d /\ lock[c] = "write") => lock[d] = NoGuard)
    /\ []((\E c \in Conns : Dispatched(c)) => \E c \in Conns : ENABLED Work(c))
    /\ \A c \in Conns : Dispatched(c) ~> ~Dispatched(c)

\* Both handlers are at the insert of a new session for the same pid; one
\* holds the write guard, the other waits for it.
C32_Witness ==
    /\ pc[1] = "insert" /\ pc[2] = "insert"
    /\ lock[1] = "write" /\ lock[2] = NoGuard
    /\ ~ENABLED AcquireWrite(2)

\* The line of connection c is a Capture or a GetSession.
Unkeyed(l) == ~IsBlank(l) /\ Parses(l) /\ ~IsKeyed(l)

\* C33: under every loaded policy, the one that rejects every key included, a
\* Capture or GetSession line that is read goes on to resolve the session of
\* its pid; the response of a GetSession is the session the registry holds for
\* the pid; and a Capture answered Ok has its environment stored as the
\* metadata of that session.
C33_UnkeyedEventsNotGated ==
    [][\A c \in Conns :
        /\ (pc[c] = "read" /\ reqs'[c] # reqs[c] /\ Unkeyed(reqs'[c][Len(reqs'[c])]))
           => pc'[c] = "lookup"
        /\ (pc[c] = "respond" /\ pc'[c] # "respond" /\ Unkeyed(line[c]))
           => /\ line[c].pid \in DOMAIN registry
              /\ sess[c] = registry[line[c].pid]
              /\ line[c].tag = "GetSession" => resp[c] = RespSession(sess[c])
              /\ (line[c].tag = "Capture" /\ resp[c] = RespOk)
                 => /\ sess[c].id \in DOMAIN metadata
                    /\ metadata[sess[c].id] =
                         [session |-> sess[c], current_env |-> line[c].env]
      ]_vars

\* Under the policy that rejects every key, a GetSession for an unseen pid was
\* answered with its new session and a Capture with Ok, its environment stored.
C33_Witness ==
    /\ tracking = RejectAll
    /\ \A k \in Keys : ~should_track(tracking, k)
    /\ reqs[1] = <<GetSessionLine(100), CaptureLine(100, [k \in {"FOO"} |-> "bar"])>>
    /\ Len(resps[1]) = 2
    /\ resps[1][1].tag = "Session" /\ resps[1][1].session.pid = 100
    /\ resps[1][2] = RespOk
    /\ metadata[resps[1][1].session.id].current_env = [k \in {"FOO"} |-> "bar"]

\* C34: every session id that has a timeline entry appended under it is the
\* id of the session the registry holds for the pid of that entry.
C34_EntriesUnderRegistrySession ==
    \A sid \in DOMAIN appended :
        appended[sid] # <<>>
        => \E p \in Pids : p \in DOMAIN registry /\ registry[p].id = sid

\* C35: in the timeline of a session that has no captured environment, a Set
\* entry appended after another Set entry of the same key, with no entry of
\* that key between them, carries as prev the value of the earlier one.
C35_PrevFollowsLogOrder ==
    \A sid \in DOMAIN appended \ DOMAIN metadata :
        \A i, j \in 1 .. Len(appended[sid]) :
            ( /\ i < j
              /\ appended[sid][i].action = "Set" /\ appended[sid][j].action = "Set"
              /\ appended[sid][i].key = appended[sid][j].key
              /\ \A m \in (i + 1) .. (j - 1) :
                    appended[sid][m].key # appended[sid][j].key )
            => appended[sid][j].prev = appended[sid][i].value

\* C36: after a Capture, a Set FOO=v1 and a Set FOO=v2 handled one after
\* another with no storage failure, the second entry of the session's
\* timeline has prev = v1.
C36_PrevCorrectAfterCapture ==
    \A e \in Envs, v1, v2 \in Vals :
        ( /\ reqs[1] = <<CaptureLine(100, e), SetLine(100, "FOO", v1),
                         SetLine(100, "FOO", v2)>>
          /\ Len(resps[1]) = 3 /\ ~faulted )
        => /\ Len(AppendedOf(registry[100].id)) = 2
           /\ AppendedOf(registry[100].id)[2].prev = Some(v1)

\* C37: a send_event call that has returned Some(Ok) was answered: the daemon
\* wrote a response on its connection, and that response is Ok.
C37_OkOnlyIfDaemonWroteOk ==
    \A c \in Conns :
        (calls[c].pc = "done" /\ calls[c].result = Ok(Some(RespOk)))
        => (resps[c] # <<>> /\ resps[c][1] = RespOk)

\* C38: a delete(name, scope) removes at most one file, and only the file of
\* that name in the scope asked for or in the global scope; every other file
\* stays as it was.
C38_DeleteStaysInScope ==
    [][DeleteStep =>
        LET n == outcome'.name
            sc == outcome'.session
            gone == DOMAIN snapshots \ DOMAIN snapshots'
        IN  /\ Cardinality(gone) <= 1
            /\ gone \subseteq {snapshot_path(n, sc), snapshot_path(n, None)}
            /\ DOMAIN snapshots' \subseteq DOMAIN snapshots
            /\ \A p \in DOMAIN snapshots' : snapshots'[p] = snapshots[p]
      ]_vars

\* The place of a key in the order of String::cmp.
KeyRank(k) == CHOOSE i \in 1 .. Len(DiffKeys) : DiffKeys[i] = k

\* The entry diff_envs is to give for a key of the union of the two maps.
DiffFor(old_env, new_env, k) ==
    IF k \notin DOMAIN old_env THEN Added(k, new_env[k])
    ELSE IF k \notin DOMAIN new_env THEN Removed(k, old_env[k])
    ELSE IF old_env[k] # new_env[k] THEN Changed(k, old_env[k], new_env[k])
    ELSE Unchanged(k, old_env[k])

====
